---- MODULE Spec2Model ----
(***************************************************************************)
(* A model of the destiny-pkg archive reader and fleet manager.            *)
(*                                                                         *)
(*   archive reader   src/src/package.rs (Package::read_entry),            *)
(*                    src/src/d2_shared.rs (PackageCommonD2),              *)
(*                    src/src/crypto.rs, src/src/oodle.rs                  *)
(*   fleet manager    src/src/manager/mod.rs, src/src/manager.rs,          *)
(*                    src/src/manager/path_cache.rs                        *)
(*                                                                         *)
(* Byte buffers are modelled by their provenance: a buffer is a sequence   *)
(* of extents, each naming the block it was copied from and the half-open  *)
(* byte range [from, to) of that block's decoded data.  Block and entry    *)
(* indices are 0-based as in the source; TLA+ sequences are 1-based, so    *)
(* block b of the table is blocks[b + 1].                                  *)
(*                                                                         *)
(* Specifications:                                                         *)
(*   Spec        one reader over stored blocks, read sequentially          *)
(*   SpecLoader  one reader over compressed, encrypted and sibling blocks  *)
(*   SpecCrypto  decrypt_block_in_place over every flags value             *)
(*   SpecFleet   PackageManager::new over a directory and a path cache     *)
(*   SpecRace    two threads in PackageManager::get_or_load_pkg            *)
(***************************************************************************)
EXTENDS Integers, Sequences, FiniteSets, TLC

(***************************************************************************)
(* Bounds of the model.                                                    *)
(***************************************************************************)
\* Longest block table of an archive.
MaxBlocks == 3
\* read_entry is not started once the reader's block_counter reached this.
MaxLoads == 4
\* package.rs:18 sets BLOCK_CACHE_SIZE to 128; the model scales the capacity
\* down so that an entry can span more blocks than the cache holds.
BLOCK_CACHE_SIZE == 2
\* Readers the threads of SpecRace may open.
MaxReaders == 3

(***************************************************************************)
(* Program constants.                                                      *)
(***************************************************************************)
\* d2_shared.rs:64, 0x40000
BLOCK_SIZE == 262144

None == "None"

\* The element of a one-element set. Writing The({F(x) : x \in {e}}) computes e
\* once before F uses it.
The(S) == CHOOSE x \in S : TRUE

\* flags & mask != 0, for a one-bit mask
Bit(flags, mask) == (flags \div mask) % 2 = 1

VARIABLES
    \* ---- one archive reader (PackageCommonD2) and what it reads from ----
    blocks,         \* the block table: a sequence of block headers
    version,        \* the generation the reader was opened with
    cipher_extra,   \* PkgGcmState.cipher_extra: the group's external key, if any
    sibling_files,  \* patch ids whose sibling <path_base>_<patch>.pkg exists on disk
    OODLE_3,        \* oodle::OODLE_3 holds a loaded library
    OODLE_9,        \* oodle::OODLE_9 holds a loaded library
    block_cache,    \* block index -> [epoch, data]
    block_counter,  \* the epoch the next inserted block gets
    file_handles,   \* patch ids with an open sibling handle
    patch_id,       \* the reader's own patch id (header.patch_id)
    call,           \* what the latest read_entry call did and returned
    \* ---- block decryption on its own ----
    gcm_call,       \* what the latest decrypt_block_in_place call was given and did
    \* ---- the fleet manager's construction (PackageManager::new) ----
    revision,       \* which of the two manager sources the build compiled
    dir_files,      \* the .pkg files of the packages directory
    dir_mtime,      \* the directory's modification time in seconds
    package_cache,  \* the contents of package_cache.json (None: unreadable)
    package_paths,  \* PackageManager.package_paths: pkg_id -> path
    new_call,       \* what the latest PackageManager::new did and returned
    lookup,         \* PackageManager.lookup, the tag lookup index
    lookup_cache,   \* the contents of lookup_cache_<cache key>.bin
    \* ---- threads sharing one fleet manager ----
    pkgs,           \* PackageManager.pkgs: pkg_id -> open reader
    th,             \* thread -> where it stands in get_or_load_pkg and what it holds
    next_reader,    \* the identity the next opened reader gets
    inserted,       \* every insert into pkgs so far, in order: <<pkg_id, reader>>
    \* ---- tag hashes on their own ----
    tag_call,       \* what the latest TagHash::new was given and what the tag reads back
    \* ---- threads calling get_block on one reader ----
    gt,             \* thread -> where it stands in get_block and what it holds
    write_lock,     \* the thread holding block_cache.write() across a load, or 0
    last_removal,   \* what the latest block_cache.write().remove(&oldest) did
    \* ---- one caller sweeping the blocks of one cache ----
    sw,             \* which code keeps the cache, its entries, its counter
    \* ---- raw block reads on one reader ----
    rw,             \* how often each sibling file was opened, and the latest read
    \* ---- the nonce of one archive's crypto state ----
    nonce_call,     \* what the latest PkgGcmState::new was given and the nonce it left
    \* ---- get_block calls, one after the other, on one reader ----
    gb,             \* what the latest get_block was asked, found and returned, and the one before
    \* ---- the primary file handle of the reader the threads share ----
    reader_pos,     \* the position of the handle (self.reader)
    \* ---- one read_entry call taken step by step ----
    lp,             \* the call's locals and how it ended
    \* ---- a query of the fleet's index by reference or by type ----
    qc              \* one returned pair and what get_entry answers for its tag

readerVars == <<blocks, version, cipher_extra, sibling_files, OODLE_3, OODLE_9,
                block_cache, block_counter, file_handles, patch_id, call>>

cryptoVars == <<gcm_call>>

fleetVars ==
    <<revision, dir_files, dir_mtime, package_cache, package_paths, new_call, lookup,
      lookup_cache>>

raceVars == <<pkgs, th, next_reader, inserted>>

tagVars == <<tag_call>>

\* the variables of the machines defined after the first four
getVars == <<gt, write_lock, last_removal>>

sweepVars == <<sw>>

rawVars == <<rw>>

nonceVars == <<nonce_call>>

blockVars == <<gb>>

seekVars == <<reader_pos>>

loopVars == <<lp>>

queryVars == <<qc>>

restVars ==
    <<tagVars, getVars, sweepVars, rawVars, nonceVars, blockVars, seekVars, loopVars, queryVars>>

vars == <<readerVars, cryptoVars, fleetVars, raceVars, restVars>>

(***************************************************************************)
(* Crypto state (crypto.rs).  AES-GCM is modelled by what it is given: a   *)
(* cipher ("K0" and "K1" are cipher_0 and cipher_1, "EXT" and "EXT2" are   *)
(* external keys of keys.txt) and a nonce ("derived" is self.nonce after   *)
(* shift_nonce, "iv" the iv stored with an external key).  A block's enc   *)
(* field names the pair its ciphertext and gcm_tag were sealed with        *)
(* (Unsealed: the tag verifies under no pair).                             *)
(***************************************************************************)
Sealed(cipher, nonce) == [cipher |-> cipher, nonce |-> nonce]

NoEnc == Sealed(None, None)

Unsealed == Sealed("BAD", "BAD")

\* decrypt_in_place_detached succeeds exactly under the pair the block was
\* sealed with.
Verifies(cipher, nonce, enc) == enc = Sealed(cipher, nonce)

\* a decryption that falls back to the built-in keys when the external key is
\* absent or does not verify
decrypt_block_in_place_fallback(flags, enc, extra) ==
    IF Bit(flags, 8) /\ extra # None /\ Verifies(extra, "iv", enc)
    THEN [ok |-> TRUE, kind |-> None, cipher |-> extra, nonce |-> "iv"]
    ELSE LET cipher == IF Bit(flags, 4) THEN "K1" ELSE "K0"
         IN  IF Verifies(cipher, "derived", enc)
             THEN [ok |-> TRUE, kind |-> None, cipher |-> cipher, nonce |-> "derived"]
             ELSE [ok |-> FALSE, kind |-> "DecryptFailed", cipher |-> cipher,
                   nonce |-> "derived"]

\* PkgGcmState::decrypt_block_in_place (crypto.rs:75-109). extra is
\* self.cipher_extra: None, or the cipher registered for the archive's group.
\* The result names the last (cipher, nonce) pair the call tried (None when it
\* tried none).
decrypt_block_in_place(flags, enc, extra) ==
    IF Bit(flags, 8)
    THEN IF extra # None /\ Verifies(extra, "iv", enc)
         THEN [ok |-> TRUE, kind |-> None, cipher |-> extra, nonce |-> "iv"]
         ELSE \* "No (working) key found for PKG group"
              [ok |-> FALSE, kind |-> "RedactedUnavailable", cipher |-> extra,
               nonce |-> IF extra = None THEN None ELSE "iv"]
    ELSE LET cipher == IF Bit(flags, 4) THEN "K1" ELSE "K0"
         IN  IF Verifies(cipher, "derived", enc)
             THEN [ok |-> TRUE, kind |-> None, cipher |-> cipher, nonce |-> "derived"]
             ELSE \* "Failed to decrypt PKG data block"
                  [ok |-> FALSE, kind |-> "DecryptFailed", cipher |-> cipher,
                   nonce |-> "derived"]

(***************************************************************************)
(* Codec adapter (oodle.rs).                                               *)
(***************************************************************************)
Versions == {"Destiny2Shadowkeep", "Destiny2BeyondLight"}

\* d2_shared.rs:193-208: which adapter read_block calls for a generation
\* (decompress_3 up to Shadowkeep, decompress_9 from Beyond Light on).
AdapterOf(v) == IF v = "Destiny2BeyondLight" THEN 9 ELSE 3

AdapterLoaded(n, o3, o9) == IF n = 3 THEN o3 ELSE o9

\* oodle::decompress_3 / decompress_9: with no library loaded the closure given
\* to ok_or_else panics; otherwise the adapter's return value comes back as Ok.
decompress(n, o3, o9, lz) ==
    IF AdapterLoaded(n, o3, o9)
    THEN [res |-> "ok", ret |-> lz]
    ELSE [res |-> "panic", ret |-> 0]

(***************************************************************************)
(* Block loader (d2_shared.rs).  Results carry res: "ok", "err" (an Err    *)
(* returned to the caller) or "panic" (the thread unwinds).                *)
(***************************************************************************)
NoData == [len |-> 0, content |-> None]

\* PackageCommonD2::get_block_raw for a block index inside the table.
get_block_raw(bi, fh) ==
    LET bh == blocks[bi + 1]
        read == IF bh.eof
                THEN [res |-> "err", kind |-> "Io", data |-> NoData]
                ELSE [res |-> "ok", kind |-> None,
                      data |-> [len |-> bh.size, content |-> "stored"]]
    IN  IF patch_id = bh.patch_id
        THEN read @@ [handles |-> fh, opened |-> FALSE]
        ELSE IF bh.patch_id \in fh
        THEN read @@ [handles |-> fh, opened |-> FALSE]
        ELSE IF bh.patch_id \notin sibling_files
        THEN [res |-> "err", kind |-> "SiblingMissing", data |-> NoData,
              handles |-> fh, opened |-> FALSE]
        ELSE read @@ [handles |-> fh \cup {bh.patch_id}, opened |-> TRUE]

\* a ^ b on bytes
RECURSIVE xor(_, _)
xor(a, b) ==
    IF a = 0 /\ b = 0
    THEN 0
    ELSE ((a + b) % 2) + 2 * xor(a \div 2, b \div 2)

\* crypto.rs:48-50
AES_NONCE_BASE == <<132, 223, 17, 192, 172, 171, 250, 32, 51, 17, 38, 153>>

\* crypto.rs:66-73; nonce[i] of the source is nonce[i + 1] here
shift_nonce(nonce, pkg_id, v) ==
    [nonce EXCEPT ![1] = xor(nonce[1], (pkg_id \div 256) % 256),
                  ![2] = IF v \in {"Destiny2Beta", "Destiny2Shadowkeep"}
                         THEN 249 ELSE 234,
                  ![12] = xor(nonce[12], pkg_id % 256)]

\* crypto.rs:52-64
PkgGcmState_new(pkg_id, v) == shift_nonce(AES_NONCE_BASE, pkg_id, v)

\* A reader that hands on the generation the archive was opened as.
version_as_opened(v) == v

\* the generation a reader hands to PackageCommonD2::new: PackageD2Beta
\* (d2_beta/impl.rs:67) and PackageD2PreBL (d2_prebl/impl.rs:87), which reads
\* Forsaken and Shadowkeep archives, hand on a fixed one, PackageD2BeyondLight
\* (d2_beyondlight/impl.rs:61) the one it was opened with
version_given(v) ==
    IF v = "Destiny2Beta" THEN "Destiny2Beta"
    ELSE IF v \in {"Destiny2Forsaken", "Destiny2Shadowkeep"} THEN "Destiny2Shadowkeep"
    ELSE v

\* PackageD1RiseOfIron::get_block_raw (d1_roi/impl.rs:109-132) and, line for
\* line, PackageD1Legacy::get_block_raw (d1_legacy/impl.rs:117-140): a block of
\* another patch opens <path_base>_<patch_id>.pkg, reads and drops the handle.
\* read, not read_exact: a short read is no error.
PackageD1RiseOfIron_get_block_raw(bi, fh) ==
    LET bh == blocks[bi + 1]
        read == [res |-> "ok", kind |-> None,
                 data |-> [len |-> bh.size,
                           content |-> IF bh.eof THEN "short" ELSE "stored"]]
    IN  IF patch_id = bh.patch_id
        THEN read @@ [handles |-> fh, opened |-> FALSE]
        ELSE IF bh.patch_id \notin sibling_files
        THEN [res |-> "err", kind |-> "SiblingMissing", data |-> NoData,
              handles |-> fh, opened |-> FALSE]
        ELSE read @@ [handles |-> fh, opened |-> TRUE]

\* version.rs:200-218: the reader a generation opens, by its get_block_raw
D1Versions == {"DestinyFirstLookAlpha", "DestinyTheTakenKing", "DestinyRiseOfIron"}

get_block_raw_of(v, bi, fh) ==
    IF v \in D1Versions
    THEN PackageD1RiseOfIron_get_block_raw(bi, fh)
    ELSE get_block_raw(bi, fh)

\* PackageCommonD2::read_block: reads, decrypts and decompresses one block.
\* lz_called tells whether the adapter ran, lz_ret what it returned.
read_block(bi, fh) ==
    IF bi >= Len(blocks)
    THEN \* self.blocks[block_index] is an unchecked index: out of bounds panics
         [res |-> "panic", kind |-> "IndexOutOfBounds", data |-> NoData,
          handles |-> fh, lz_called |-> FALSE, lz_ret |-> 0, codec_missing |-> FALSE]
    ELSE
    LET bh  == blocks[bi + 1]
        raw == get_block_raw(bi, fh)
        dec == IF Bit(bh.flags, 2)
               THEN decrypt_block_in_place(bh.flags, bh.enc, cipher_extra)
               ELSE [ok |-> TRUE, kind |-> None, cipher |-> None, nonce |-> None]
        lz  == decompress(AdapterOf(version), OODLE_3, OODLE_9, bh.lz)
    IN  IF raw.res # "ok"
        THEN [res |-> "err", kind |-> raw.kind, data |-> NoData,
              handles |-> raw.handles, lz_called |-> FALSE, lz_ret |-> 0, codec_missing |-> FALSE]
        ELSE IF ~dec.ok
        THEN [res |-> "err", kind |-> dec.kind, data |-> NoData,
              handles |-> raw.handles, lz_called |-> FALSE, lz_ret |-> 0, codec_missing |-> FALSE]
        ELSE IF ~Bit(bh.flags, 1)
        THEN [res |-> "ok", kind |-> None,
              data |-> [len |-> raw.data.len,
                        content |-> IF Bit(bh.flags, 2) THEN "plaintext" ELSE "stored"],
              handles |-> raw.handles, lz_called |-> FALSE, lz_ret |-> 0, codec_missing |-> FALSE]
        ELSE IF lz.res = "panic"
        THEN [res |-> "panic", kind |-> "OodleNotLoaded", data |-> NoData,
              handles |-> raw.handles, lz_called |-> FALSE, lz_ret |-> 0, codec_missing |-> TRUE]
        ELSE \* _decompressed_size is dropped: the BLOCK_SIZE buffer is returned
             \* whatever the adapter answered
             [res |-> "ok", kind |-> None,
              data |-> [len |-> BLOCK_SIZE,
                        content |-> IF lz.ret > 0 THEN "decompressed"
                                    ELSE "codec_failed_output"],
              handles |-> raw.handles, lz_called |-> TRUE, lz_ret |-> lz.ret,
              codec_missing |-> FALSE]

(***************************************************************************)
(* Block cache (d2_shared.rs:219-252).  A cache is a function from the     *)
(* cached block indices to [epoch, data].                                  *)
(***************************************************************************)
Min(a, b) == IF a < b THEN a ELSE b
Max(a, b) == IF a > b THEN a ELSE b

EmptyCache == [b \in {} |-> [epoch |-> 0, data |-> NoData]]

\* the key min_by picks: the entry with the smallest epoch
Oldest(cache) ==
    CHOOSE b \in DOMAIN cache : \A c \in DOMAIN cache : cache[b].epoch <= cache[c].epoch

Newest(cache) ==
    CHOOSE b \in DOMAIN cache : \A c \in DOMAIN cache : cache[b].epoch >= cache[c].epoch

Without(cache, b) == [c \in DOMAIN cache \ {b} |-> cache[c]]

\* A trim that removes the entry with the greatest epoch.
RECURSIVE remove_newest_blocks(_)
remove_newest_blocks(cache) ==
    IF Cardinality(DOMAIN cache) > BLOCK_CACHE_SIZE
    THEN remove_newest_blocks(Without(cache, Newest(cache)))
    ELSE cache

\* d2_shared.rs:238-249: while the cache holds more than BLOCK_CACHE_SIZE blocks,
\* remove the one with the smallest epoch.
RECURSIVE remove_old_blocks(_)
remove_old_blocks(cache) ==
    IF Cardinality(DOMAIN cache) > BLOCK_CACHE_SIZE
    THEN remove_old_blocks(Without(cache, Oldest(cache)))
    ELSE cache

\* A get_block that reserves the slot before it loads: a failed load leaves an
\* empty buffer behind under the epoch it took.
get_block_insert_first(bi, cache, counter, fh) ==
    IF bi \in DOMAIN cache
    THEN [res |-> "ok", kind |-> None, data |-> cache[bi].data,
          cache |-> remove_old_blocks(cache), counter |-> counter, handles |-> fh,
          loaded |-> FALSE, lz_called |-> FALSE, lz_ret |-> 0,
          codec_missing |-> FALSE]
    ELSE The({
             [res |-> r.res, kind |-> r.kind, data |-> r.data,
              cache |-> remove_old_blocks(
                           (bi :> [epoch |-> counter, data |-> r.data]) @@ cache),
              counter |-> counter + 1, handles |-> r.handles,
              loaded |-> r.res = "ok", lz_called |-> r.lz_called, lz_ret |-> r.lz_ret,
              codec_missing |-> r.codec_missing]
         : r \in {read_block(bi, fh)} })

\* PackageCommonD2::get_block on a reader whose cache, counter and handles are
\* the arguments; returns the result with the reader's state after the call.
get_block(bi, cache, counter, fh) ==
    IF bi \in DOMAIN cache
    THEN [res |-> "ok", kind |-> None, data |-> cache[bi].data,
          cache |-> remove_old_blocks(cache), counter |-> counter, handles |-> fh,
          loaded |-> FALSE, lz_called |-> FALSE, lz_ret |-> 0,
          codec_missing |-> FALSE]
    ELSE The({
             IF r.res # "ok"
             THEN \* the ? (or the unwinding) leaves before the insert and the trim
                  [res |-> r.res, kind |-> r.kind, data |-> NoData,
                   cache |-> cache, counter |-> counter, handles |-> r.handles,
                   loaded |-> FALSE, lz_called |-> r.lz_called, lz_ret |-> r.lz_ret,
                   codec_missing |-> r.codec_missing]
             ELSE [res |-> "ok", kind |-> None, data |-> r.data,
                   cache |-> remove_old_blocks(
                                (bi :> [epoch |-> counter, data |-> r.data]) @@ cache),
                   counter |-> counter + 1, handles |-> r.handles,
                   loaded |-> TRUE, lz_called |-> r.lz_called, lz_ret |-> r.lz_ret,
                   codec_missing |-> r.codec_missing]
         : r \in {read_block(bi, fh)} })

(***************************************************************************)
(* The entry table.  Every archive of the model carries the same table: it *)
(* lists every (starting_block, starting_block_offset, file_size) over the *)
(* sets below, so an entry index selects the case to read.                 *)
(***************************************************************************)
EntryOffsets == <<0, 16>>
EntrySizes   == <<0, 8, 16, 24, 40>>

\* the entries of the table that come from EntryOffsets and EntrySizes
GridCount == MaxBlocks * Len(EntryOffsets) * Len(EntrySizes)

\* after them, an entry that starts 0x40 bytes into block 0 and is 0x80000
\* bytes long
LongEntries ==
    <<[starting_block |-> 0, starting_block_offset |-> 64, file_size |-> 2 * BLOCK_SIZE]>>

EntryCount == GridCount + Len(LongEntries)

EntryInRange(index) == index >= 0 /\ index < EntryCount

\* Package::entry (d2_beyondlight/impl.rs:115-124): entries.get(index), for an
\* index inside the table
entry(index) ==
    IF index >= GridCount THEN LongEntries[index - GridCount + 1]
    ELSE
    [starting_block |-> index % MaxBlocks,
     starting_block_offset |->
         EntryOffsets[((index \div MaxBlocks) % Len(EntryOffsets)) + 1],
     file_size |->
         EntrySizes[(index \div (MaxBlocks * Len(EntryOffsets))) + 1]]

(***************************************************************************)
(* Package::read_entry (package.rs:202-244).                               *)
(***************************************************************************)
Extent(b, from, to, content) ==
    IF to > from THEN <<[blk |-> b, from |-> from, to |-> to, content |-> content]>>
    ELSE << >>

RECURSIVE BufLen(_)
BufLen(buffer) ==
    IF buffer = << >> THEN 0
    ELSE (Head(buffer).to - Head(buffer).from) + BufLen(Tail(buffer))

\* a copy that takes the starting block from its first byte
FirstCopyFromZero(e) == 0

\* a copy that takes starting_block_offset as counted from the block's end
FirstCopyStartFromEnd(e) == BLOCK_SIZE - e.starting_block_offset

\* where the copy from the starting block begins (package.rs:217, 226)
FirstCopyStart(e) == e.starting_block_offset

\* a loop that copies every later block whole
LaterCopyWhole(remaining_bytes, len) == len

\* how many bytes of a later block the loop copies (package.rs:230-238)
LaterCopy(remaining_bytes, len) ==
    IF remaining_bytes < len THEN remaining_bytes ELSE len

\* The while loop of read_entry from one iteration on. st is the loop's state:
\* the locals current_offset, current_block and buffer, the reader's cache,
\* counter and handles, and what the call did so far (touched: the block
\* indices asked of get_block, loads: those the loader was run for).
RECURSIVE read_entry_loop(_, _)
read_entry_loop(e, st) ==
    IF ~(st.current_offset < e.file_size)
    THEN st @@ [res |-> "ok", kind |-> None]
    ELSE
    The({
    LET remaining_bytes == e.file_size - st.current_offset
        seen == [cache |-> g.cache, counter |-> g.counter, handles |-> g.handles,
                 touched |-> Append(st.touched, st.current_block),
                 loads |-> IF g.loaded THEN Append(st.loads, st.current_block)
                           ELSE st.loads,
                 lz_failed |-> st.lz_failed \/ (g.lz_called /\ g.lz_ret <= 0),
                 codec_missing |-> st.codec_missing \/ g.codec_missing,
                 walked_out |-> st.walked_out \/ st.current_block >= Len(blocks)]
    IN  IF g.res # "ok"
        THEN [res |-> g.res, kind |-> g.kind] @@ seen @@ st
        ELSE IF st.current_block = e.starting_block
        THEN IF FirstCopyStart(e) > g.data.len
             THEN \* block_data.len() - block_start_offset underflows: a debug build
                  \* panics there, a release build wraps and the slice panics
                  [res |-> "panic", kind |-> "SliceOutOfRange"] @@ seen @@ st
             ELSE LET block_start_offset == FirstCopyStart(e)
                      block_remaining == g.data.len - block_start_offset
                      copy_size == IF block_remaining < remaining_bytes
                                   THEN block_remaining ELSE remaining_bytes
                  IN  read_entry_loop(e,
                        [current_offset |-> st.current_offset + copy_size,
                         current_block |-> st.current_block + 1,
                         buffer |-> st.buffer \o
                             Extent(st.current_block, block_start_offset,
                                    block_start_offset + copy_size,
                                    g.data.content)] @@ seen)
        ELSE LET n == LaterCopy(remaining_bytes, g.data.len)
             IN  read_entry_loop(e,
                   [current_offset |-> st.current_offset + n,
                    current_block |-> st.current_block + 1,
                    buffer |-> st.buffer \o
                        Extent(st.current_block, 0, n, g.data.content)] @@ seen)
    : g \in {get_block(st.current_block, st.cache, st.counter, st.handles)} })

\* Package::read_entry on the reader's current state.
read_entry(index) ==
    LET st0 == [current_offset |-> 0, current_block |-> 0, buffer |-> << >>,
                cache |-> block_cache, counter |-> block_counter,
                handles |-> file_handles, touched |-> << >>, loads |-> << >>,
                lz_failed |-> FALSE, codec_missing |-> FALSE, walked_out |-> FALSE]
    IN  IF ~EntryInRange(index)
        THEN \* .ok_or(anyhow!("Entry index is out of range"))?
             [res |-> "err", kind |-> "TableOutOfBounds"] @@ st0
        ELSE read_entry_loop(entry(index),
                 [st0 EXCEPT !.current_block = entry(index).starting_block])

(***************************************************************************)
(* Package files and their paths (manager/mod.rs, manager.rs).  A path is  *)
(* text: a sequence of character codes, so that splitting, parsing and the *)
(* two sort orders act on what the file is called.  A file of the packages *)
(* directory is [id, patch, seg, language, opens]: its path is             *)
(* w64_foo_<id as 4 hex digits>_<patch in decimal>.pkg, with the language  *)
(* code seg and another _ before the patch when the name carries one; its  *)
(* header holds pkg_id = id and the language; opens tells whether          *)
(* Version::open succeeds on it.                                           *)
(***************************************************************************)
PackageFile(id, patch, seg, language, opens) ==
    [id |-> id, patch |-> patch, seg |-> seg, language |-> language, opens |-> opens]

\* a file with no language code in its name and a header of no language
File(id, patch) == PackageFile(id, patch, << >>, "None", TRUE)

\* PackageLanguage::english_or_none (package.rs:59-63)
english_or_none(language) == language \in {"None", "English"}

\* Version::open(path): the header fields the constructor reads
open(f) == [ok |-> f.opens, pkg_id |-> f.id, language |-> f.language]

HexChar(d) == IF d < 10 THEN 48 + d ELSE 87 + d

Hex4(n) ==
    <<HexChar((n \div 4096) % 16), HexChar((n \div 256) % 16),
      HexChar((n \div 16) % 16), HexChar(n % 16)>>

RECURSIVE Dec(_)
Dec(n) == IF n < 10 THEN <<48 + n>> ELSE Dec(n \div 10) \o <<48 + (n % 10)>>

\* "w64_foo_"
NamePrefix == <<119, 54, 52, 95, 102, 111, 111, 95>>

\* ".pkg"
PkgSuffix == <<46, 112, 107, 103>>

\* the file name of a package file
PathText(f) ==
    NamePrefix \o Hex4(f.id) \o <<95>>
        \o (IF f.seg = << >> THEN << >> ELSE f.seg \o <<95>>)
        \o Dec(f.patch) \o PkgSuffix

\* str::split(sep)
RECURSIVE Split(_, _)
Split(text, sep) ==
    IF \A i \in 1..Len(text) : text[i] # sep
    THEN <<text>>
    ELSE LET k == CHOOSE i \in 1..Len(text) :
                      text[i] = sep /\ \A j \in 1..(i - 1) : text[j] # sep
         IN  <<SubSeq(text, 1, k - 1)>> \o Split(SubSeq(text, k + 1, Len(text)), sep)

HexValue(c) ==
    IF c >= 48 /\ c <= 57 THEN c - 48
    ELSE IF c >= 97 /\ c <= 102 THEN c - 87
    ELSE IF c >= 65 /\ c <= 70 THEN c - 55
    ELSE -1

RECURSIVE Radix(_, _, _)
Radix(text, base, acc) ==
    IF text = << >> THEN acc
    ELSE Radix(Tail(text), base, acc * base + HexValue(Head(text)))

\* u16::from_str_radix(s, 16)
from_str_radix_16(text) ==
    IF text # << >> /\ (\A i \in 1..Len(text) : HexValue(text[i]) >= 0)
       /\ Radix(text, 16, 0) < 65536
    THEN [ok |-> TRUE, value |-> Radix(text, 16, 0)]
    ELSE [ok |-> FALSE, value |-> 0]

\* str::parse::<u8>()
parse_u8(text) ==
    IF text # << >> /\ (\A i \in 1..Len(text) : text[i] >= 48 /\ text[i] <= 57)
       /\ Radix(text, 10, 0) < 256
    THEN [ok |-> TRUE, value |-> Radix(text, 10, 0)]
    ELSE [ok |-> FALSE, value |-> 0]

\* PackagePath::parse (manager/mod.rs:333-362, manager.rs:528-557): the id and
\* patch fields read from the file name
parse(text) ==
    LET parts == Split(text, 95)
        n == Len(parts)
    IN  IF n < 4 THEN [ok |-> FALSE, id |-> << >>, patch |-> 0]
        ELSE LET id == IF Len(parts[n - 1]) = 2 THEN parts[n - 2] ELSE parts[n - 1]
                 patch == parse_u8(Split(parts[n], 46)[1])
             IN  IF patch.ok THEN [ok |-> TRUE, id |-> id, patch |-> patch.value]
                 ELSE [ok |-> FALSE, id |-> << >>, patch |-> 0]

\* PackagePath::parse_with_defaults (manager/mod.rs:364-377): id "unknown" and
\* patch 0 when the name does not parse
parse_with_defaults(text) ==
    IF parse(text).ok THEN parse(text)
    ELSE [ok |-> TRUE, id |-> <<117, 110, 107, 110, 111, 119, 110>>, patch |-> 0]

\* the order of str: byte by byte, a proper prefix first
RECURSIVE LexLess(_, _)
LexLess(a, b) ==
    IF b = << >> THEN FALSE
    ELSE IF a = << >> THEN TRUE
    ELSE IF Head(a) # Head(b) THEN Head(a) < Head(b)
    ELSE LexLess(Tail(a), Tail(b))

\* manager.rs:125, packages_all.sort(): the paths in the order of their text
SortBefore_manager_rs(f, g) == LexLess(PathText(f), PathText(g))

\* manager/mod.rs:110-113, packages_all.sort_by_cached_key(|p| (p.id, p.patch))
\* over PackagePath::parse_with_defaults(p)
SortBefore_manager_mod_rs(f, g) ==
    LET kf == parse_with_defaults(PathText(f))
        kg == parse_with_defaults(PathText(g))
    IN  \/ LexLess(kf.id, kg.id)
        \/ kf.id = kg.id /\ kf.patch < kg.patch

Revisions == {"manager.rs", "manager/mod.rs"}

SortBefore(rev, f, g) ==
    IF rev = "manager.rs" THEN SortBefore_manager_rs(f, g)
    ELSE SortBefore_manager_mod_rs(f, g)

\* packages_all after the sort. The files of the model have pairwise different
\* sort keys, so the order read_dir lists them in does not show in the result.
RECURSIVE Sorted(_, _)
Sorted(rev, files) ==
    IF files = {} THEN << >>
    ELSE LET first == CHOOSE f \in files :
                          \A g \in files \ {f} : ~SortBefore(rev, g, f)
         IN  <<first>> \o Sorted(rev, files \ {first})

\* an empty pkg_id -> path map
NoPaths == [i \in {} |-> File(0, 0)]

\* "Filter latest packages" (manager/mod.rs:115-133, manager.rs:127-145):
\* every path whose last but one segment is a hex number is inserted under
\* that number, a later path replacing an earlier one. A path whose segment
\* is no hex number is opened, and inserted under the pkg_id of its header
\* when it opens and its language is English or none.
RECURSIVE FilterLatest(_, _)
FilterLatest(packages_all, packages) ==
    IF packages_all = << >> THEN packages
    ELSE LET p == Head(packages_all)
             parts == Split(PathText(p), 95)
             pkg_id == from_str_radix_16(parts[Len(parts) - 1])
             pkg == open(p)
         IN  FilterLatest(Tail(packages_all),
                 IF pkg_id.ok THEN (pkg_id.value :> p) @@ packages
                 ELSE IF pkg.ok /\ english_or_none(pkg.language)
                 THEN (pkg.pkg_id :> p) @@ packages
                 ELSE packages)

\* the discovery branch of PackageManager::new (manager/mod.rs:93-134,
\* manager.rs:108-146)
Discover(rev, files) == FilterLatest(Sorted(rev, files), NoPaths)

(***************************************************************************)
(* The path cache package_cache.json (manager/path_cache.rs, manager.rs).  *)
(* The file is [readable, cache_version, versions]; versions maps a key    *)
(* <<version id, platform>> (the text "{id}_{platform}") to an entry       *)
(* [timestamp, version, platform, base_path, paths].                       *)
(***************************************************************************)
VERSION == 4

NoEntry ==
    [timestamp |-> 0, version |-> None, platform |-> None, base_path |-> None,
     paths |-> NoPaths]

NoVersions == [k \in {} |-> NoEntry]

UnreadableCache == [readable |-> FALSE, cache_version |-> 0, versions |-> NoVersions]

\* PathCache::default
DefaultCache == [readable |-> TRUE, cache_version |-> VERSION, versions |-> NoVersions]

\* PackageManager::read_package_cache: the cache when the file can be read and
\* parsed and carries the current version
read_package_cache(file) ==
    IF file.readable /\ file.cache_version = VERSION
    THEN [some |-> TRUE, cache |-> file]
    ELSE [some |-> FALSE, cache |-> UnreadableCache]

\* PathCache::get_paths
get_paths(cache, ver, platform, base_path) ==
    IF platform # None
    THEN IF <<ver, platform>> \in DOMAIN cache.versions
         THEN [res |-> "ok", some |-> TRUE, entry |-> cache.versions[<<ver, platform>>]]
         ELSE [res |-> "ok", some |-> FALSE, entry |-> NoEntry]
    ELSE LET matches == {k \in DOMAIN cache.versions : cache.versions[k].version = ver}
             retained ==
                 IF Cardinality(matches) > 1
                 THEN {k \in matches : cache.versions[k].base_path = base_path}
                 ELSE matches
         IN  IF Cardinality(retained) > 1
             THEN \* "There is more than one cache entry for version ..."
                  [res |-> "err", some |-> FALSE, entry |-> NoEntry]
             ELSE IF retained = {}
             THEN [res |-> "ok", some |-> FALSE, entry |-> NoEntry]
             ELSE [res |-> "ok", some |-> TRUE,
                   entry |-> cache.versions[CHOOSE k \in retained : TRUE]]

\* a validation that does not compare the entry's base_path
validate_cache_any_dir(file, ver, platform, packages_dir, mtime) ==
    LET c == read_package_cache(file)
        p == get_paths(c.cache, ver, platform, packages_dir)
    IN  IF c.some /\ p.res = "ok" /\ p.some /\ ~(p.entry.timestamp < mtime)
        THEN [ok |-> TRUE, paths |-> p.entry.paths]
        ELSE [ok |-> FALSE, paths |-> NoPaths]

\* PackageManager::validate_cache (manager/path_cache.rs:91-131). mtime is the
\* directory's modification time as fs::metadata reports it.
validate_cache(file, ver, platform, packages_dir, mtime) ==
    LET c == read_package_cache(file)
        p == get_paths(c.cache, ver, platform, packages_dir)
    IN  IF ~c.some
        THEN \* "Failed to load package cache"
             [ok |-> FALSE, paths |-> NoPaths]
        ELSE IF ~(p.res = "ok" /\ p.some)
        THEN \* .ok().flatten(): "No cache entry found for version ..."
             [ok |-> FALSE, paths |-> NoPaths]
        ELSE IF p.entry.timestamp < mtime
        THEN \* "Package directory changed"
             [ok |-> FALSE, paths |-> NoPaths]
        ELSE IF p.entry.base_path # packages_dir
        THEN \* "Package directory path changed"
             [ok |-> FALSE, paths |-> NoPaths]
        ELSE [ok |-> TRUE, paths |-> p.entry.paths]

\* The start of PackageManager::new up to build_new_cache: "reuse" with the
\* cached paths, "rebuild", or "fail" when the constructor returns early.
\* manager/mod.rs:82-91 asks validate_cache; manager.rs:75-106 does the same
\* steps inline, with get_paths(...)? returning its error to the caller.
build_new_cache(rev, file, ver, platform, packages_dir, mtime) ==
    IF rev = "manager/mod.rs"
    THEN LET v == validate_cache(file, ver, platform, packages_dir, mtime)
         IN  IF v.ok THEN [res |-> "reuse", paths |-> v.paths]
             ELSE [res |-> "rebuild", paths |-> NoPaths]
    ELSE LET c == read_package_cache(file)
             p == get_paths(c.cache, ver, platform, packages_dir)
         IN  IF ~c.some THEN [res |-> "rebuild", paths |-> NoPaths]
             ELSE IF p.res = "err" THEN [res |-> "fail", paths |-> NoPaths]
             ELSE IF ~p.some THEN [res |-> "rebuild", paths |-> NoPaths]
             ELSE IF p.entry.timestamp < mtime THEN [res |-> "rebuild", paths |-> NoPaths]
             ELSE IF p.entry.base_path # packages_dir
             THEN [res |-> "rebuild", paths |-> NoPaths]
             ELSE [res |-> "reuse", paths |-> p.entry.paths]

\* a write_package_cache that starts from an empty cache
write_package_cache_fresh(file, ver, platform, package_dir, mtime, paths) ==
    [DefaultCache EXCEPT !.versions =
        (<<ver, platform>> :>
            [timestamp |-> mtime, version |-> ver, platform |-> platform,
             base_path |-> package_dir, paths |-> paths])]

\* PackageManager::write_package_cache: the file after the manager stored its
\* paths under its cache key
write_package_cache(file, ver, platform, package_dir, mtime, paths) ==
    LET c == read_package_cache(file)
        cache == IF c.some THEN c.cache ELSE DefaultCache
        key == <<ver, platform>>
        found == IF key \in DOMAIN cache.versions THEN cache.versions[key]
                 ELSE [timestamp |-> mtime, version |-> ver, platform |-> platform,
                       base_path |-> package_dir, paths |-> NoPaths]
        written == [found EXCEPT !.timestamp = mtime, !.base_path = package_dir,
                                 !.paths = paths]
    IN  [cache EXCEPT !.versions = (key :> written) @@ cache.versions]

(***************************************************************************)
(* Tag hashes (tag.rs).  A TagHash is a u32, kept here as its two 16-bit   *)
(* halves <<high, low>> so that no intermediate value leaves the range of  *)
(* the checker's integers: the arithmetic wraps at 2^32 by dropping the    *)
(* carry out of the high half, and `as u16` keeps the low half.            *)
(***************************************************************************)
U16_MODULUS == 65536

\* `x as u32` of a u16
as_u32(x) == <<0, x>>

\* `x as u16` of a u32
as_u16(a) == a[2]

\* 0x80800000, the tag of entry 0 of package 0
TAG_BASE == <<32896, 0>>

\* 0x81ffffff, the largest tag is_valid accepts
TAG_LAST == <<33279, 65535>>

\* u32::MAX, TagHash::NONE
TAG_NONE == <<65535, 65535>>

wrapping_add(a, b) ==
    <<(a[1] + b[1] + ((a[2] + b[2]) \div U16_MODULUS)) % U16_MODULUS,
      (a[2] + b[2]) % U16_MODULUS>>

wrapping_sub(a, b) ==
    <<(a[1] - b[1] - (IF a[2] < b[2] THEN 1 ELSE 0) + 2 * U16_MODULUS) % U16_MODULUS,
      (a[2] - b[2] + U16_MODULUS) % U16_MODULUS>>

\* a << n and a >> n for n <= 16
shl(a, n) ==
    <<(a[1] * 2 ^ n + (a[2] * 2 ^ n) \div U16_MODULUS) % U16_MODULUS,
      (a[2] * 2 ^ n) % U16_MODULUS>>

shr(a, n) ==
    <<a[1] \div 2 ^ n,
      (a[2] \div 2 ^ n) + ((a[1] * 2 ^ (16 - n)) % U16_MODULUS)>>

\* a % 8192 and a & 0x1fff: 8192 divides 2^16, so only the low half counts
rem8192(a) == <<0, a[2] % 8192>>

u32_gt(a, b) == a[1] > b[1] \/ (a[1] = b[1] /\ a[2] > b[2])

u32_le(a, b) == ~u32_gt(a, b)

\* a TagHash::new that gives the entry index twelve bits
TagHash_new_shl12(pkg_id, index) ==
    wrapping_add(wrapping_add(TAG_BASE, shl(as_u32(pkg_id), 12)), rem8192(as_u32(index)))

\* TagHash::new
TagHash_new(pkg_id, index) ==
    wrapping_add(wrapping_add(TAG_BASE, shl(as_u32(pkg_id), 13)), rem8192(as_u32(index)))

\* TagHash::is_valid
TagHash_is_valid(t) == u32_gt(t, TAG_BASE) /\ u32_le(t, TAG_LAST)

\* TagHash::pkg_id
TagHash_pkg_id(t) == as_u16(shr(wrapping_sub(t, TAG_BASE), 13))

\* TagHash::entry_index
TagHash_entry_index(t) == as_u16(rem8192(rem8192(t)))

NoTagCall ==
    [done |-> FALSE, pkg_id |-> 0, entry |-> 0, tag |-> <<0, 0>>, read_pkg_id |-> 0,
     read_entry_index |-> 0]

TagIdle == tag_call = NoTagCall

\* the threads that call get_block on one reader
Getters == {1, 2, 3}

NoGetter ==
    [pc |-> "idle", bi |-> 0, oldest |-> 0, got |-> -1, loaded |-> FALSE,
     behind |-> 0, expect |-> -1, from |-> -1]

NoRemoval ==
    [done |-> FALSE, by |-> 0, key |-> 0, present |-> FALSE, smallest |-> FALSE,
     len_before |-> 0]

GetIdle ==
    /\ gt = [t \in Getters |-> NoGetter]
    /\ write_lock = 0
    /\ last_removal = NoRemoval

(***************************************************************************)
(* The capacity of a block cache as the source declares it.  Two pieces of *)
(* code keep a cache of decoded blocks: the readers (PackageCommonD2 and   *)
(* the D1 readers, fields block_cache and block_counter) trim against      *)
(* package.rs:18, and struct BlockCache trims against its own constant.    *)
(***************************************************************************)
\* block_cache.rs:25, pub const MAX_BLOCKS: usize = 32
MAX_BLOCKS == 32
\* package.rs:18, pub const BLOCK_CACHE_SIZE: usize = 128, not scaled
PACKAGE_BLOCK_CACHE_SIZE == 128
\* A sweep stops after this many loads.
MaxSweep == 140

Holders == {"BlockCache", "PackageCommonD2"}

\* the right-hand side of the while test: block_cache.rs:60 and d2_shared.rs:238
capacity(holder) ==
    IF holder = "BlockCache" THEN MAX_BLOCKS ELSE PACKAGE_BLOCK_CACHE_SIZE

\* the trimming loop run by one caller: block_cache.rs:59-72, d2_shared.rs:238-249
\* A trimming loop that removes the entry with the greatest epoch.
RECURSIVE trim_newest(_, _)
trim_newest(cache, cap) ==
    IF Cardinality(DOMAIN cache) > cap
    THEN trim_newest(Without(cache, Newest(cache)), cap)
    ELSE cache

RECURSIVE trim(_, _)
trim(cache, cap) ==
    IF Cardinality(DOMAIN cache) > cap
    THEN trim(Without(cache, Oldest(cache)), cap)
    ELSE cache

\* the key of f with the smallest value
ArgMin(f) == CHOOSE b \in DOMAIN f : \A c \in DOMAIN f : f[b] <= f[c]

Restrict(f, keys) == [b \in DOMAIN f \cap keys |-> f[b]]

\* cap is the capacity the cache is trimmed to.  used and loaded_at keep, for
\* every cached block, the number of the latest get that asked for it and of
\* the get that loaded it; removed, lru and first keep what the latest get
\* evicted and which blocks were the least recently used and the earliest
\* loaded one when its trimming began.
NoSweep ==
    [holder |-> "none", cap |-> 0, cache |-> EmptyCache, counter |-> 0, gets |-> 0,
     pure |-> TRUE, used |-> << >>, loaded_at |-> << >>, removed |-> {},
     lru |-> -1, first |-> -1]

SweepIdle == sw = NoSweep

\* opens: patch id -> how many times File::open ran for its sibling file
NoRaw == [reads |-> 0, opens |-> << >>, bi |-> -1, res |-> None, primary |-> FALSE]

RawIdle == rw = NoRaw

NoNonceCall == [done |-> FALSE, pkg_id |-> 0, version |-> None, nonce |-> << >>]

NonceIdle == nonce_call = NoNonceCall

NoBlockCall ==
    [gets |-> 0, bi |-> -1, res |-> None, invoked |-> FALSE,
     cache_before |-> EmptyCache, counter_before |-> 0, prev_bi |-> -1,
     prev_res |-> None]

BlockIdle == gb = NoBlockCall

SeekIdle == reader_pos = 0

\* the locals of a read_entry call: current_offset, current_block, the
\* buffer's length, the iterations completed, and how the call ended
NoLoop ==
    [pc |-> "idle", index |-> -1, current_offset |-> 0, current_block |-> 0,
     len |-> 0, steps |-> 0, kind |-> None]

LoopIdle == lp = NoLoop

\* one (tag, entry) pair of a query's result: the index asked, the archive p
\* and position i the pair was made from, and get_entry's answer for the tag
NoQuery ==
    [done |-> FALSE, by |-> None, index |-> << >>, p |-> 0, i |-> 0,
     tag |-> <<0, 0>>, entry |-> None, tag_pkg_id |-> 0, got |-> << >>]

QueryIdle == qc = NoQuery

(***************************************************************************)
(* The tag lookup index (manager/mod.rs:35-41, manager/lookup_cache.rs).   *)
(* What an archive holds is given by its id: one entry, one alias of a     *)
(* valid tag, one named tag, and, in archives of even id, a second alias   *)
(* whose hash32 is TagHash::NONE.  The hash64 values of different ids      *)
(* differ, so the order in which the tables are merged does not show.      *)
(* named_tags is kept as a set: the order of the list is the iteration     *)
(* order of a hash map.                                                    *)
(***************************************************************************)
\* Package::hash64_table
hash64_table(f) ==
    <<[hash64 |-> 10 * f.id + 1, hash32 |-> TagHash_new(f.id, 1),
       reference |-> TagHash_new(f.id, 0)]>>
        \o (IF f.id % 2 = 0
            THEN <<[hash64 |-> 10 * f.id + 2, hash32 |-> TAG_NONE, reference |-> TAG_NONE]>>
            ELSE << >>)

\* Package::entries
entries(f) == <<[reference |-> f.id, file_size |-> 8]>>

\* Package::named_tags
named_tags(f) == {[hash |-> TagHash_new(f.id, 1), name |-> f.id]}

\* TagLookupIndex::default
EmptyLookup ==
    [tag32_entries_by_pkg |-> [i \in {} |-> << >>],
     tag64_entries |-> [h \in {} |-> [hash32 |-> TAG_NONE, reference |-> TAG_NONE]],
     named_tags |-> {}]

\* the archives of package_paths that Version::open opens
Opened(paths) == {f \in {paths[i] : i \in DOMAIN paths} : open(f).ok}

\* PackageManager::build_lookup_tables (manager/lookup_cache.rs:57-107,
\* manager.rs:255-296): every archive of package_paths is opened, one that
\* does not open is left out, and the tables of the others are merged
build_lookup_tables(paths) ==
    LET aliases == UNION {{hash64_table(f)[k] : k \in DOMAIN hash64_table(f)} :
                            f \in Opened(paths)}
    IN  [tag32_entries_by_pkg |->
             [id \in {open(f).pkg_id : f \in Opened(paths)} |->
                 entries(CHOOSE f \in Opened(paths) : open(f).pkg_id = id)],
         tag64_entries |->
             [h \in {r.hash64 : r \in aliases} |->
                 LET r == CHOOSE r \in aliases : r.hash64 = h
                 IN  [hash32 |-> r.hash32, reference |-> r.reference]],
         named_tags |-> UNION {named_tags(f) : f \in Opened(paths)}]

\* The lookup cache file: whether it can be read, whether this build wrote
\* it, whether bincode decodes its bytes as a TagLookupIndex of this build,
\* and the index that comes out when it does.  The file holds the encoded
\* index and nothing else (lookup_cache.rs:51-54).
NoLookupFile ==
    [readable |-> FALSE, this_build |-> TRUE, decodes |-> FALSE, index |-> EmptyLookup]

\* PackageManager::read_lookup_cache (lookup_cache.rs:23-45)
read_lookup_cache(file) ==
    IF file.readable /\ file.decodes
    THEN [some |-> TRUE, index |-> file.index]
    ELSE [some |-> FALSE, index |-> EmptyLookup]

\* PackageManager::write_lookup_cache (lookup_cache.rs:48-55)
write_lookup_cache(index) ==
    [readable |-> TRUE, this_build |-> TRUE, decodes |-> TRUE, index |-> index]

(***************************************************************************)
(* The archive reader as a state machine: one reader, read sequentially.   *)
(***************************************************************************)
PlainHeader(size, patch) ==
    [size |-> size, patch_id |-> patch, flags |-> 0, enc |-> NoEnc, lz |-> 0,
     eof |-> FALSE]

\* Stored blocks of the reader's own patch: empty, short and long.
StoredHeaders == {PlainHeader(n, 1) : n \in {0, 16, 32}}

\* The block headers that exercise the loader: a stored block, compressed
\* blocks for which the adapter answers a length, zero or a negative number,
\* an encrypted block sealed with K0, one whose tag verifies under no key, and
\* a block hosted by the sibling patch 0.
LoaderHeaders ==
    {PlainHeader(16, 1), PlainHeader(16, 0)}
    \cup {[PlainHeader(16, 1) EXCEPT !.flags = 1, !.lz = r] : r \in {BLOCK_SIZE, 0, -1}}
    \cup {[PlainHeader(16, 1) EXCEPT !.flags = 2, !.enc = k] :
               k \in {Sealed("K0", "derived"), Unsealed}}

RECURSIVE SeqsUpTo(_, _)
SeqsUpTo(S, n) ==
    IF n = 0 THEN {<< >>}
    ELSE LET shorter == SeqsUpTo(S, n - 1)
         IN  shorter \cup {Append(q, x) : q \in {t \in shorter : Len(t) = n - 1}, x \in S}

NoCall ==
    [index |-> -1, res |-> None, kind |-> None, buffer |-> << >>, touched |-> << >>,
     loads |-> << >>, lz_failed |-> FALSE, codec_missing |-> FALSE,
     walked_out |-> FALSE, repeat |-> FALSE, first_res |-> None,
     first_buffer |-> << >>, first_loads |-> << >>]

NoGcmCall ==
    [flags |-> -1, enc |-> NoEnc, ok |-> FALSE, kind |-> None, cipher |-> None,
     nonce |-> None]

NoNewCall ==
    [done |-> FALSE, platform |-> None, res |-> None, kind |-> None,
     reused |-> FALSE, walked |-> FALSE, cache_before |-> UnreadableCache,
     built |-> FALSE, from_file |-> FALSE, lookup_before |-> NoLookupFile,
     mtime |-> 0, dir |-> {}]

\* the packages directory given to PackageManager::new, its generation, and
\* the platform of the files in it
PackagesDir == "dirA"

GameVer == "d2_bl"

FilePlatform == "w64"

\* the thread identities and the pkg_ids they ask for (91 has no path)
Threads == {1, 2}

AskedIds == {89, 90, 91}

NoThread == [pc |-> "idle", pkg_id |-> 0, reader |-> 0, res |-> None, kind |-> None]

\* no reader in use
ReaderIdle ==
    /\ blocks = << >>
    /\ version = "Destiny2BeyondLight"
    /\ cipher_extra = None
    /\ sibling_files = {}
    /\ OODLE_3 = FALSE
    /\ OODLE_9 = FALSE
    /\ block_cache = EmptyCache
    /\ block_counter = 0
    /\ file_handles = {}
    /\ patch_id = 1
    /\ call = NoCall

CryptoIdle == gcm_call = NoGcmCall

\* no fleet manager constructed
FleetIdle ==
    /\ revision = "manager/mod.rs"
    /\ dir_files = {}
    /\ dir_mtime = 0
    /\ package_cache = UnreadableCache
    /\ package_paths = NoPaths
    /\ new_call = NoNewCall
    /\ lookup = EmptyLookup
    /\ lookup_cache = NoLookupFile

\* no thread in the fleet manager, no reader open
RaceIdle ==
    /\ pkgs = [i \in AskedIds |-> 0]
    /\ th = [t \in Threads |-> NoThread]
    /\ next_reader = 1
    /\ inserted = << >>

\* none of the later machines in use
RestIdle ==
    /\ TagIdle
    /\ GetIdle
    /\ SweepIdle
    /\ RawIdle
    /\ NonceIdle
    /\ BlockIdle
    /\ SeekIdle
    /\ LoopIdle
    /\ QueryIdle

ReaderStart ==
    /\ cipher_extra = None
    /\ OODLE_3 = FALSE
    /\ OODLE_9 = FALSE
    /\ block_cache = EmptyCache
    /\ block_counter = 0
    /\ file_handles = {}
    /\ patch_id = 1
    /\ call = NoCall
    /\ CryptoIdle
    /\ FleetIdle
    /\ RaceIdle
    /\ RestIdle

\* A reader over an archive of stored blocks.
ReaderInit ==
    /\ blocks \in SeqsUpTo(StoredHeaders, MaxBlocks)
    /\ version = "Destiny2BeyondLight"
    /\ sibling_files = {}
    /\ ReaderStart

\* A reader over an archive whose blocks need the loader's other steps.
LoaderInit ==
    /\ blocks \in SeqsUpTo(LoaderHeaders, 2)
    /\ version \in Versions
    /\ sibling_files \in SUBSET {0}
    /\ ReaderStart

\* A caller runs read_entry(index) to its end. call keeps what the call did;
\* when the call before it read the same index, call also keeps that call's
\* result (first_*), so the pair is a read repeated on the same reader.
ReadEntry(index) ==
    /\ block_counter < MaxLoads
    /\ \E r \in {read_entry(index)} :
           /\ block_cache' = r.cache
           /\ block_counter' = r.counter
           /\ file_handles' = r.handles
           /\ call' = [index |-> index, res |-> r.res, kind |-> r.kind,
                       buffer |-> r.buffer, touched |-> r.touched, loads |-> r.loads,
                       lz_failed |-> r.lz_failed, codec_missing |-> r.codec_missing,
                       walked_out |-> r.walked_out,
                       repeat |-> call.index = index,
                       first_res |-> IF call.index = index THEN call.res ELSE None,
                       first_buffer |-> IF call.index = index THEN call.buffer
                                        ELSE << >>,
                       first_loads |-> IF call.index = index THEN call.loads
                                       ELSE << >>]
    /\ UNCHANGED <<blocks, version, cipher_extra, sibling_files, OODLE_3, OODLE_9,
                   patch_id>>
    /\ UNCHANGED <<cryptoVars, fleetVars, raceVars, restVars>>

\* PackageManager::new (manager/mod.rs:65-80) over a directory with the codec
\* library beside it: the library is loaded into the adapter slot that is
\* still empty.
LoadOodle3 ==
    /\ ~OODLE_3
    /\ OODLE_3' = TRUE
    /\ UNCHANGED <<blocks, version, cipher_extra, sibling_files, OODLE_9,
                   block_cache, block_counter, file_handles, patch_id, call>>
    /\ UNCHANGED <<cryptoVars, fleetVars, raceVars, restVars>>

LoadOodle9 ==
    /\ ~OODLE_9
    /\ OODLE_9' = TRUE
    /\ UNCHANGED <<blocks, version, cipher_extra, sibling_files, OODLE_3,
                   block_cache, block_counter, file_handles, patch_id, call>>
    /\ UNCHANGED <<cryptoVars, fleetVars, raceVars, restVars>>

ReaderNext == \E index \in 0..EntryCount : ReadEntry(index)

LoaderNext ==
    \/ \E index \in 0..EntryCount : ReadEntry(index)
    \/ LoadOodle3
    \/ LoadOodle9

\* The archive reader over stored blocks, read sequentially.
Spec == ReaderInit /\ [][ReaderNext]_vars

\* Blocks of the full decoded size, stored or compressed, and a short block
\* such as the last one of an archive.
FullHeaders ==
    {PlainHeader(BLOCK_SIZE, 1),
     [PlainHeader(16, 1) EXCEPT !.flags = 1, !.lz = BLOCK_SIZE],
     PlainHeader(256, 1)}

\* A reader over an archive of full-size blocks.
FullInit ==
    /\ blocks \in SeqsUpTo(FullHeaders, MaxBlocks)
    /\ version = "Destiny2BeyondLight"
    /\ sibling_files = {}
    /\ ReaderStart

\* The archive reader over blocks of the full decoded size.
SpecFull == FullInit /\ [][LoaderNext]_vars

\* The archive reader with compressed, encrypted and sibling-hosted blocks.
SpecLoader == LoaderInit /\ [][LoaderNext]_vars

(***************************************************************************)
(* Block decryption: decrypt_block_in_place applied to every flags value,  *)
(* to blocks sealed under each pair, by a state with each external key.    *)
(***************************************************************************)
ExternalKeys == {"EXT", "EXT2"}

SealedBlocks ==
    {Sealed("K0", "derived"), Sealed("K1", "derived"), Sealed("EXT", "iv"), Unsealed}

\* PkgGcmState::new (crypto.rs:52-64): cipher_extra is the key keys.txt
\* registers for the archive's group, if any.
CryptoInit ==
    /\ cipher_extra \in {None} \cup ExternalKeys
    /\ blocks = << >>
    /\ version = "Destiny2BeyondLight"
    /\ sibling_files = {}
    /\ OODLE_3 = FALSE
    /\ OODLE_9 = FALSE
    /\ block_cache = EmptyCache
    /\ block_counter = 0
    /\ file_handles = {}
    /\ patch_id = 1
    /\ call = NoCall
    /\ CryptoIdle
    /\ FleetIdle
    /\ RaceIdle
    /\ RestIdle

DecryptBlock(flags, enc) ==
    /\ \E r \in {decrypt_block_in_place(flags, enc, cipher_extra)} :
           gcm_call' = [flags |-> flags, enc |-> enc, ok |-> r.ok, kind |-> r.kind,
                        cipher |-> r.cipher, nonce |-> r.nonce]
    /\ UNCHANGED <<readerVars, fleetVars, raceVars, restVars>>

CryptoNext == \E flags \in 0..15, enc \in SealedBlocks : DecryptBlock(flags, enc)

SpecCrypto == CryptoInit /\ [][CryptoNext]_vars

(***************************************************************************)
(* Construction of the fleet manager over a packages directory and a path  *)
(* cache file.  Patch numbers stay below 256 (PackagePath.patch is a u8).  *)
(***************************************************************************)
DirFiles == {File(89, 1), File(89, 2), File(89, 10), File(90, 1)}

\* files with a language: w64_foo_005a_de_1.pkg (German; "de" reads as the
\* hex number 0xde), w64_foo_005b_fr_1.pkg (French), w64_foo_005c_en_1.pkg
\* (English), w64_foo_005d_1.pkg (a French header under a name without a
\* language code); and files that do not open: w64_foo_005e_1.pkg and
\* w64_foo_005f_en_1.pkg
LanguageFiles ==
    {PackageFile(90, 1, <<100, 101>>, "German", TRUE),
     PackageFile(91, 1, <<102, 114>>, "French", TRUE),
     PackageFile(92, 1, <<101, 110>>, "English", TRUE),
     PackageFile(93, 1, << >>, "French", TRUE),
     PackageFile(94, 1, << >>, "None", FALSE),
     PackageFile(95, 1, <<101, 110>>, "English", FALSE)}

\* the directories a run starts from: any of the plain files, one of the
\* files with a language alone, or all of those together
Directories ==
    (SUBSET DirFiles) \cup {{f} : f \in LanguageFiles} \cup {LanguageFiles}

\* what a cache entry written by an earlier run lists
CachedPaths == (89 :> File(89, 1))

CacheKeys == {<<"d2_bl", "w64">>, <<"d2_bl", "ps4">>, <<"d2_wq", "w64">>}

BasePaths == {"dirA", "dirB"}

CachedEntry(k, base_path) ==
    [timestamp |-> 5, version |-> k[1], platform |-> k[2], base_path |-> base_path,
     paths |-> CachedPaths]

\* the entries a readable cache file may hold: for each key none, or one
\* written for either base path
CachedVersions ==
    {[k \in keys |-> CachedEntry(k, base[k])] :
        keys \in SUBSET CacheKeys, base \in [CacheKeys -> BasePaths]}

\* an index of some other build, as this build decodes it
OtherIndex == [EmptyLookup EXCEPT !.tag32_entries_by_pkg = (89 :> << >>)]

\* the lookup cache files a run may find: none, the one the run that wrote
\* CachedPaths left, and files of another build that bincode accepts or not
LookupFiles ==
    {NoLookupFile,
     write_lookup_cache(build_lookup_tables(CachedPaths)),
     [readable |-> TRUE, this_build |-> FALSE, decodes |-> TRUE, index |-> OtherIndex],
     [readable |-> TRUE, this_build |-> FALSE, decodes |-> FALSE, index |-> EmptyLookup]}

CacheFiles ==
    {UnreadableCache}
    \cup {[readable |-> TRUE, cache_version |-> v, versions |-> vs] :
             v \in {VERSION - 1, VERSION}, vs \in CachedVersions}

FleetInit ==
    /\ revision \in Revisions
    /\ dir_files \in Directories
    /\ dir_mtime \in {4, 5, 6}
    /\ package_cache \in CacheFiles
    /\ package_paths = NoPaths
    /\ new_call = NoNewCall
    /\ lookup = EmptyLookup
    /\ lookup_cache \in LookupFiles
    /\ ReaderIdle
    /\ CryptoIdle
    /\ RaceIdle
    /\ RestIdle

\* PackageManager::new(PackagesDir, GameVer, platform), run to its end over a
\* directory that has no codec library beside it (so lines 65-80 leave the
\* adapter slots alone). new_call keeps what the call did: whether it took
\* the cached paths (reused) or listed the directory (walked), whether it
\* built the index or took it from the lookup cache file, and the two cache
\* files it found.  manager.rs has no lookup cache file: it always builds.
\* lookup_written tells whether the write of the lookup cache file, whose
\* result the constructor drops (lines 161, 167: write_lookup_cache().ok()),
\* put the file in place.
NewRun(platform, lookup_written) ==
    /\ \E b \in {build_new_cache(revision, package_cache, GameVer, platform,
                                 PackagesDir, dir_mtime)} :
       \E packages \in {IF b.res = "reuse" THEN b.paths
                        ELSE IF b.res = "rebuild" THEN Discover(revision, dir_files)
                        ELSE NoPaths} :
       \E cached \in {read_lookup_cache(lookup_cache)} :
          LET called == [done |-> TRUE, platform |-> platform, res |-> "ok",
                         kind |-> None, reused |-> b.res = "reuse",
                         walked |-> b.res = "rebuild",
                         cache_before |-> package_cache,
                         built |-> FALSE, from_file |-> FALSE,
                         lookup_before |-> lookup_cache,
                         mtime |-> dir_mtime, dir |-> dir_files]
              take == revision = "manager/mod.rs" /\ b.res = "reuse" /\ cached.some
          IN  IF b.res = "fail"
              THEN \* get_paths(...)? (manager.rs:77)
                   /\ new_call' = [called EXCEPT !.res = "err", !.kind = "AmbiguousCache"]
                   /\ package_paths' = NoPaths
                   /\ lookup' = EmptyLookup
                   /\ UNCHANGED <<package_cache, lookup_cache>>
              ELSE IF DOMAIN packages = {}
              THEN \* .context("No packages found")?
                   /\ new_call' = [called EXCEPT !.res = "err", !.kind = "NoPackages"]
                   /\ package_paths' = NoPaths
                   /\ lookup' = EmptyLookup
                   /\ UNCHANGED <<package_cache, lookup_cache>>
              ELSE /\ new_call' = [called EXCEPT !.built = ~take, !.from_file = take]
                   /\ package_paths' = packages
                   /\ package_cache' =
                          IF b.res = "rebuild"
                          THEN write_package_cache(package_cache, GameVer, FilePlatform,
                                                   PackagesDir, dir_mtime, packages)
                          ELSE package_cache
                   /\ lookup' = IF take THEN cached.index
                                ELSE build_lookup_tables(packages)
                   /\ lookup_cache' =
                          IF revision = "manager/mod.rs" /\ ~take /\ lookup_written
                          THEN write_lookup_cache(build_lookup_tables(packages))
                          ELSE lookup_cache
    /\ UNCHANGED <<revision, dir_files, dir_mtime>>
    /\ UNCHANGED <<readerVars, cryptoVars, raceVars, restVars>>

\* the constructor when its writes succeed
New(platform) == NewRun(platform, TRUE)

FleetNext == \E platform \in {None, "w64", "ps4"} : New(platform)

SpecFleet == FleetInit /\ [][FleetNext]_vars

(***************************************************************************)
(* Runs of the constructor with changes of the directory in between: a     *)
(* file is added to the packages directory or removed from it, which moves *)
(* the directory's modification time on.                                   *)
(***************************************************************************)
MaxMtime == 7

StaleInit ==
    /\ revision \in Revisions
    /\ dir_files \in SUBSET DirFiles
    /\ dir_mtime = 5
    /\ package_cache \in CacheFiles
    /\ package_paths = NoPaths
    /\ new_call = NoNewCall
    /\ lookup = EmptyLookup
    /\ lookup_cache = NoLookupFile
    /\ ReaderIdle
    /\ CryptoIdle
    /\ RaceIdle
    /\ RestIdle

Touch(f) ==
    /\ dir_mtime < MaxMtime
    /\ dir_mtime' = dir_mtime + 1
    /\ dir_files' = IF f \in dir_files THEN dir_files \ {f} ELSE dir_files \cup {f}
    /\ UNCHANGED <<revision, package_cache, package_paths, new_call, lookup, lookup_cache>>
    /\ UNCHANGED <<readerVars, cryptoVars, raceVars, restVars>>

StaleNext ==
    \/ \E platform \in {None, "w64", "ps4"} : New(platform)
    \/ \E f \in DirFiles : Touch(f)

SpecStale == StaleInit /\ [][StaleNext]_vars

(***************************************************************************)
(* The same runs of the manager/mod.rs constructor, started without cache  *)
(* files, where the write of the lookup cache file may fail.               *)
(***************************************************************************)
WritesInit ==
    /\ revision = "manager/mod.rs"
    /\ dir_files \in SUBSET DirFiles
    /\ dir_mtime = 5
    /\ package_cache = UnreadableCache
    /\ package_paths = NoPaths
    /\ new_call = NoNewCall
    /\ lookup = EmptyLookup
    /\ lookup_cache = NoLookupFile
    /\ ReaderIdle
    /\ CryptoIdle
    /\ RaceIdle
    /\ RestIdle

WritesNext ==
    \/ \E platform \in {None, "w64", "ps4"}, lookup_written \in BOOLEAN :
           NewRun(platform, lookup_written)
    \/ \E f \in DirFiles : Touch(f)

SpecWrites == WritesInit /\ [][WritesNext]_vars

(***************************************************************************)
(* Threads calling read_tag on one fleet manager: get_or_load_pkg          *)
(* (manager/mod.rs:208-228, manager.rs:332-352) step by step, one step per *)
(* lock acquisition.                                                       *)
(***************************************************************************)
RaceInit ==
    /\ revision \in Revisions
    /\ dir_files = {File(89, 2), File(90, 1)}
    /\ dir_mtime = 5
    /\ package_cache = UnreadableCache
    /\ package_paths = (89 :> File(89, 2)) @@ (90 :> File(90, 1))
    /\ new_call = NoNewCall
    /\ lookup = build_lookup_tables(package_paths)
    /\ lookup_cache = NoLookupFile
    /\ ReaderIdle
    /\ CryptoIdle
    /\ RaceIdle
    /\ RestIdle

\* lines 210-214: under the read lock, take the open reader or go on to open
Lookup(t, pkg_id) ==
    /\ th[t].pc = "idle"
    /\ th' = [th EXCEPT ![t] =
                 IF pkgs[pkg_id] # 0
                 THEN [pc |-> "done", pkg_id |-> pkg_id, reader |-> pkgs[pkg_id],
                       res |-> "ok", kind |-> None]
                 ELSE [pc |-> "opening", pkg_id |-> pkg_id, reader |-> 0,
                       res |-> None, kind |-> None]]
    /\ UNCHANGED <<pkgs, next_reader, inserted>>
    /\ UNCHANGED <<readerVars, cryptoVars, fleetVars, restVars>>

\* lines 215-223: no lock held; find the path and open a reader of its own
Open(t) ==
    /\ th[t].pc = "opening"
    /\ IF th[t].pkg_id \notin DOMAIN package_paths
       THEN \* "Couldn't get a path for package id"
            /\ th' = [th EXCEPT ![t].pc = "done", ![t].res = "err",
                                ![t].kind = "NoPath"]
            /\ UNCHANGED next_reader
       ELSE /\ next_reader <= MaxReaders
            /\ th' = [th EXCEPT ![t].pc = "inserting", ![t].reader = next_reader]
            /\ next_reader' = next_reader + 1
    /\ UNCHANGED <<pkgs, inserted>>
    /\ UNCHANGED <<readerVars, cryptoVars, fleetVars, restVars>>

\* lines 225-226: self.pkgs.write().insert(pkg_id, Arc::clone(&package))
Insert(t) ==
    /\ th[t].pc = "inserting"
    /\ pkgs' = [pkgs EXCEPT ![th[t].pkg_id] = th[t].reader]
    /\ inserted' = Append(inserted, <<th[t].pkg_id, th[t].reader>>)
    /\ th' = [th EXCEPT ![t].pc = "done", ![t].res = "ok"]
    /\ UNCHANGED next_reader
    /\ UNCHANGED <<readerVars, cryptoVars, fleetVars, restVars>>

\* read_tag returned; the thread may call again
Return(t) ==
    /\ th[t].pc = "done"
    /\ th' = [th EXCEPT ![t] = NoThread]
    /\ UNCHANGED <<pkgs, next_reader, inserted>>
    /\ UNCHANGED <<readerVars, cryptoVars, fleetVars, restVars>>

RaceNext ==
    \E t \in Threads :
        \/ \E pkg_id \in AskedIds : Lookup(t, pkg_id)
        \/ Open(t)
        \/ Insert(t)
        \/ Return(t)

SpecRace == RaceInit /\ [][RaceNext]_vars

(***************************************************************************)
(* Tag hashes: TagHash::new applied to a package id and an entry index,    *)
(* and the two fields read back from the tag.  Every u16 package id is     *)
(* given with the entry indices at the ends of the 13-bit range, every     *)
(* 13-bit entry index with the package ids at the ends of theirs, and      *)
(* entry indices beyond 13 bits with a few package ids.                    *)
(***************************************************************************)
EdgePkgIds == {0, 1, 9, 89, 1023, 1024, 2559, 2560, 3067, 3068, 32767, 32768, 65534, 65535}

WideEntries == {8192, 8193, 16383, 32768, 65535}

TagInputs ==
    ((0 .. U16_MODULUS - 1) \X {0, 8191})
        \cup (EdgePkgIds \X (0 .. 8191))
        \cup (EdgePkgIds \X WideEntries)

TagInit ==
    /\ ReaderIdle
    /\ CryptoIdle
    /\ FleetIdle
    /\ RaceIdle
    /\ GetIdle
    /\ SweepIdle
    /\ RawIdle
    /\ NonceIdle
    /\ BlockIdle
    /\ SeekIdle
    /\ LoopIdle
    /\ QueryIdle
    /\ \E given \in TagInputs :
           tag_call = [NoTagCall EXCEPT !.pkg_id = given[1], !.entry = given[2]]

NewTag ==
    /\ ~tag_call.done
    /\ \E t \in {TagHash_new(tag_call.pkg_id, tag_call.entry)} :
           tag_call' = [tag_call EXCEPT !.done = TRUE, !.tag = t,
                                        !.read_pkg_id = TagHash_pkg_id(t),
                                        !.read_entry_index = TagHash_entry_index(t)]
    /\ UNCHANGED <<readerVars, cryptoVars, fleetVars, raceVars, getVars, sweepVars, rawVars, nonceVars,
                   blockVars, seekVars, loopVars, queryVars>>

TagNext == NewTag

SpecTag == TagInit /\ [][TagNext]_vars

(***************************************************************************)
(* Threads calling get_block on one reader (d2_shared.rs:219-252; the same *)
(* steps as BlockCache::get and remove_old_blocks, block_cache.rs:34-72).  *)
(* One step per lock acquisition, except that the write lock taken for the *)
(* lookup is held across the load of a missing block: the guard is a       *)
(* temporary of the match scrutinee and lives to the end of the match.     *)
(* Every other acquisition waits while write_lock is held.                 *)
(***************************************************************************)
MaxEpoch == 3

GetInit ==
    /\ blocks = <<PlainHeader(16, 1), PlainHeader(16, 1), PlainHeader(16, 1)>>
    /\ version = "Destiny2BeyondLight"
    /\ sibling_files = {}
    /\ ReaderStart
    /\ GetIdle
    /\ TagIdle
    /\ SweepIdle

\* a thread calls get_block(bi). It is behind thread u when u is loading the
\* same block at that moment; the block u will insert gets the epoch
\* block_counter holds now.
CallGet(t, bi) ==
    /\ gt[t].pc = "idle"
    /\ block_counter < MaxEpoch
    /\ gt' = [gt EXCEPT ![t] =
                 IF \E u \in Getters : gt[u].pc = "loading" /\ gt[u].bi = bi
                 THEN [NoGetter EXCEPT !.pc = "called", !.bi = bi,
                                       !.behind = write_lock, !.expect = block_counter]
                 ELSE [NoGetter EXCEPT !.pc = "called", !.bi = bi]]
    /\ UNCHANGED <<write_lock, last_removal, readerVars>>
    /\ UNCHANGED <<cryptoVars, fleetVars, raceVars, tagVars, sweepVars, rawVars, nonceVars,
                   blockVars, seekVars, loopVars, queryVars>>

\* A lookup whose write guard is dropped before the load: a miss goes on to
\* read_block without the lock.
Acquire_unlocked(t) ==
    /\ gt[t].pc = "called"
    /\ write_lock = 0
    /\ IF gt[t].bi \in DOMAIN block_cache
       THEN gt' = [gt EXCEPT ![t].pc = "check",
                             ![t].got = block_cache[gt[t].bi].epoch]
       ELSE gt' = [gt EXCEPT ![t].pc = "loading"]
    /\ UNCHANGED <<write_lock, last_removal, readerVars>>
    /\ UNCHANGED <<cryptoVars, fleetVars, raceVars, tagVars, sweepVars, rawVars, nonceVars,
                   blockVars, seekVars, loopVars, queryVars>>

\* lines 221-223: self.block_cache.write().entry(block_index); the Occupied
\* arm clones the cached buffer; the Vacant arm goes on to read_block with
\* the write lock held
Acquire(t) ==
    /\ gt[t].pc = "called"
    /\ write_lock = 0
    /\ IF gt[t].bi \in DOMAIN block_cache
       THEN /\ gt' = [gt EXCEPT ![t].pc = "check",
                                ![t].got = block_cache[gt[t].bi].epoch]
            /\ UNCHANGED write_lock
       ELSE /\ gt' = [gt EXCEPT ![t].pc = "loading"]
            /\ write_lock' = t
    /\ UNCHANGED <<last_removal, readerVars>>
    /\ UNCHANGED <<cryptoVars, fleetVars, raceVars, tagVars, sweepVars, rawVars, nonceVars,
                   blockVars, seekVars, loopVars, queryVars>>

\* An insert that leaves block_counter as it was.
FinishLoad_keep_counter(t) ==
    /\ gt[t].pc = "loading"
    /\ write_lock = t
    /\ \E r \in {read_block(gt[t].bi, file_handles)} :
          IF r.res # "ok"
          THEN /\ gt' = [gt EXCEPT ![t] = NoGetter]
               /\ file_handles' = r.handles
               /\ UNCHANGED <<block_cache, block_counter>>
          ELSE /\ gt' = [gt EXCEPT ![t].pc = "check", ![t].loaded = TRUE,
                                   ![t].got = block_counter]
               /\ block_cache' =
                      (gt[t].bi :> [epoch |-> block_counter, data |-> r.data]) @@ block_cache
               /\ block_counter' = block_counter
               /\ file_handles' = r.handles
    /\ write_lock' = 0
    /\ UNCHANGED <<blocks, version, cipher_extra, sibling_files, OODLE_3, OODLE_9,
                   patch_id, call, last_removal>>
    /\ UNCHANGED <<cryptoVars, fleetVars, raceVars, tagVars, sweepVars, rawVars, nonceVars,
                   blockVars, seekVars, loopVars, queryVars>>

\* lines 224-236: read_block returns; on Ok the block is inserted with the
\* epoch of block_counter, the counter is stored one higher, and the write
\* lock is released at the end of the match; on Err the ? leaves get_block
FinishLoad(t) ==
    /\ gt[t].pc = "loading"
    /\ write_lock = t
    /\ \E r \in {read_block(gt[t].bi, file_handles)} :
          IF r.res # "ok"
          THEN /\ gt' = [gt EXCEPT ![t] = NoGetter]
               /\ file_handles' = r.handles
               /\ UNCHANGED <<block_cache, block_counter>>
          ELSE /\ gt' = [gt EXCEPT ![t].pc = "check", ![t].loaded = TRUE,
                                   ![t].got = block_counter]
               /\ block_cache' =
                      (gt[t].bi :> [epoch |-> block_counter, data |-> r.data]) @@ block_cache
               /\ block_counter' = block_counter + 1
               /\ file_handles' = r.handles
    /\ write_lock' = 0
    /\ UNCHANGED <<blocks, version, cipher_extra, sibling_files, OODLE_3, OODLE_9,
                   patch_id, call, last_removal>>
    /\ UNCHANGED <<cryptoVars, fleetVars, raceVars, tagVars, sweepVars, rawVars, nonceVars,
                   blockVars, seekVars, loopVars, queryVars>>

\* line 238: while self.block_cache.read().len() > BLOCK_CACHE_SIZE; when
\* the test fails get_block returns Ok(b) and the thread is free to call again
CheckLen(t) ==
    /\ gt[t].pc = "check"
    /\ write_lock = 0
    /\ gt' = [gt EXCEPT ![t] =
                 IF Cardinality(DOMAIN block_cache) > BLOCK_CACHE_SIZE
                 THEN [gt[t] EXCEPT !.pc = "pick"]
                 ELSE NoGetter]
    /\ UNCHANGED <<write_lock, last_removal, readerVars>>
    /\ UNCHANGED <<cryptoVars, fleetVars, raceVars, tagVars, sweepVars, rawVars, nonceVars,
                   blockVars, seekVars, loopVars, queryVars>>

\* lines 239-246: under a read lock, min_by_key(epoch) and unwrap, then the
\* read lock is dropped
PickOldest(t) ==
    /\ gt[t].pc = "pick"
    /\ write_lock = 0
    /\ gt' = [gt EXCEPT ![t] =
                 IF DOMAIN block_cache = {}
                 THEN [NoGetter EXCEPT !.pc = "panicked"]
                 ELSE [gt[t] EXCEPT !.pc = "remove", !.oldest = Oldest(block_cache)]]
    /\ UNCHANGED <<write_lock, last_removal, readerVars>>
    /\ UNCHANGED <<cryptoVars, fleetVars, raceVars, tagVars, sweepVars, rawVars, nonceVars,
                   blockVars, seekVars, loopVars, queryVars>>

\* line 248: self.block_cache.write().remove(&oldest), then back to the test
\* of the loop. last_removal keeps what the removal met: whether the key was
\* still cached, whether it then had the smallest epoch, and the size of the
\* cache before the removal.
RemoveOldest(t) ==
    /\ gt[t].pc = "remove"
    /\ write_lock = 0
    /\ block_cache' = Without(block_cache, gt[t].oldest)
    /\ last_removal' =
           [done |-> TRUE, by |-> t, key |-> gt[t].oldest,
            present |-> gt[t].oldest \in DOMAIN block_cache,
            smallest |-> /\ gt[t].oldest \in DOMAIN block_cache
                         /\ gt[t].oldest = Oldest(block_cache),
            len_before |-> Cardinality(DOMAIN block_cache)]
    /\ gt' = [gt EXCEPT ![t].pc = "check", ![t].oldest = 0]
    /\ UNCHANGED <<write_lock, blocks, version, cipher_extra, sibling_files, OODLE_3,
                   OODLE_9, block_counter, file_handles, patch_id, call>>
    /\ UNCHANGED <<cryptoVars, fleetVars, raceVars, tagVars, sweepVars, rawVars, nonceVars,
                   blockVars, seekVars, loopVars, queryVars>>

GetNext ==
    \E t \in Getters :
        \/ \E bi \in 0..(Len(blocks) - 1) : CallGet(t, bi)
        \/ Acquire(t)
        \/ FinishLoad(t)
        \/ CheckLen(t)
        \/ PickOldest(t)
        \/ RemoveOldest(t)

SpecGet == GetInit /\ [][GetNext]_vars

(***************************************************************************)
(* The same threads with the load of a missing block taken apart: inside   *)
(* the Vacant arm read_block calls get_block_raw, which locks the primary  *)
(* handle once to seek and once more to read (d2_shared.rs:139-143,        *)
(* d1_roi/impl.rs:113-117), and then the block is inserted.  Every block   *)
(* lies in the reader's own file; block bi begins at BlockOffset(bi).      *)
(***************************************************************************)
BlockOffset(bi) == 64 + 16 * bi

\* lines 140-142: self.reader.write().seek(SeekFrom::Start(bh.offset))
Seek(t) ==
    /\ gt[t].pc = "loading"
    /\ reader_pos' = BlockOffset(gt[t].bi)
    /\ gt' = [gt EXCEPT ![t].pc = "sought"]
    /\ UNCHANGED <<write_lock, last_removal, readerVars>>
    /\ UNCHANGED <<cryptoVars, fleetVars, raceVars, tagVars, sweepVars, rawVars, nonceVars,
                   blockVars, loopVars, queryVars>>

\* line 143: self.reader.write().read_exact(&mut data): the bytes from the
\* handle's position on; from keeps where they came from
ReadExact(t) ==
    /\ gt[t].pc = "sought"
    /\ reader_pos' = reader_pos + blocks[gt[t].bi + 1].size
    /\ gt' = [gt EXCEPT ![t].pc = "read", ![t].from = reader_pos]
    /\ UNCHANGED <<write_lock, last_removal, readerVars>>
    /\ UNCHANGED <<cryptoVars, fleetVars, raceVars, tagVars, sweepVars, rawVars, nonceVars,
                   blockVars, loopVars, queryVars>>

\* lines 225-236: the block is inserted with the epoch of block_counter, the
\* counter is stored one higher, and the guard of the match is dropped
InsertLoaded(t) ==
    /\ gt[t].pc = "read"
    /\ gt' = [gt EXCEPT ![t].pc = "check", ![t].loaded = TRUE, ![t].got = block_counter]
    /\ block_cache' =
           (gt[t].bi :> [epoch |-> block_counter,
                         data |-> [len |-> blocks[gt[t].bi + 1].size,
                                   content |-> "stored"]]) @@ block_cache
    /\ block_counter' = block_counter + 1
    /\ write_lock' = IF write_lock = t THEN 0 ELSE write_lock
    /\ UNCHANGED <<blocks, version, cipher_extra, sibling_files, OODLE_3, OODLE_9,
                   file_handles, patch_id, call, last_removal>>
    /\ UNCHANGED <<cryptoVars, fleetVars, raceVars, tagVars, sweepVars, rawVars, nonceVars,
                   blockVars, seekVars, loopVars, queryVars>>

SeekNext ==
    \E t \in Getters :
        \/ \E bi \in 0..(Len(blocks) - 1) : CallGet(t, bi)
        \/ Acquire(t)
        \/ Seek(t)
        \/ ReadExact(t)
        \/ InsertLoaded(t)
        \/ CheckLen(t)
        \/ PickOldest(t)
        \/ RemoveOldest(t)

SpecSeek == GetInit /\ [][SeekNext]_vars

\* lines 216-223 of get_or_load_pkg, as read_tag reaches it: the path that
\* package_paths holds for the tag's pkg_id is opened, or the call fails
read_tag_opens(paths, tag) ==
    IF TagHash_pkg_id(tag) \in DOMAIN paths /\ open(paths[TagHash_pkg_id(tag)]).ok
    THEN <<paths[TagHash_pkg_id(tag)]>>
    ELSE << >>

(***************************************************************************)
(* Queries of the lookup index (manager/mod.rs:175-206, 248-256).  The     *)
(* index maps an archive's package id to its entry table; a table is kept  *)
(* by its length, and its entry at position i is table_entry(i).           *)
(***************************************************************************)
\* lengths of entry tables: one entry, and tables that reach and pass the
\* 8192 positions a tag can name
TableLens == {1, 8192, 8193}

QueryPkgIds == {1, 65535}

\* the entry at position i of an archive's table: the references and types
\* alternate, and starting_block (14 bits on disk) tells apart the positions
table_entry(i) ==
    [reference |-> i % 2, file_type |-> 8 + (i % 2), file_subtype |-> (i \div 2) % 2,
     starting_block |-> i % 16384, starting_block_offset |-> 0, file_size |-> 16]

\* Vec::get on a table of length len; an Option is a sequence of at most one
\* element
table_get(len, i) ==
    IF i < len THEN <<table_entry(i)>> ELSE << >>

\* a pair's tag made from the position after the entry's
pair_tag_of_next(p, i) == TagHash_new(p, (i + 1) % U16_MODULUS)

\* lines 183, 201: TagHash::new(*p, i as _), the position cast to u16
pair_tag(p, i) == TagHash_new(p, i % U16_MODULUS)

\* PackageManager::get_entry on an index
get_entry(index, tag) ==
    IF TagHash_pkg_id(tag) \notin DOMAIN index
    THEN << >>
    ELSE table_get(index[TagHash_pkg_id(tag)], TagHash_entry_index(tag))

QueryInit ==
    /\ ReaderIdle
    /\ CryptoIdle
    /\ FleetIdle
    /\ RaceIdle
    /\ TagIdle
    /\ GetIdle
    /\ SweepIdle
    /\ RawIdle
    /\ NonceIdle
    /\ BlockIdle
    /\ SeekIdle
    /\ LoopIdle
    /\ \E ids \in (SUBSET QueryPkgIds) \ {{}} :
       \E index \in [ids -> TableLens] :
           qc = [NoQuery EXCEPT !.index = index]

\* one pair of a query's result, and get_entry asked with the pair's tag
ReturnPair(by, p, i) ==
    \E t \in {pair_tag(p, i)} :
        qc' = [qc EXCEPT !.done = TRUE, !.by = by, !.p = p, !.i = i, !.tag = t,
                         !.entry = table_entry(i),
                         !.tag_pkg_id = TagHash_pkg_id(t),
                         !.got = get_entry(qc.index, t)]

\* PackageManager::get_all_by_reference: every table of the index is walked
\* and the entries with the reference are paired with their tags
GetAllByReference(reference) ==
    /\ ~qc.done
    /\ \E p \in DOMAIN qc.index :
       \E i \in 0..(qc.index[p] - 1) :
           /\ table_entry(i).reference = reference
           /\ ReturnPair("reference", p, i)
    /\ UNCHANGED <<readerVars, cryptoVars, fleetVars, raceVars, tagVars, getVars,
                   sweepVars, rawVars, nonceVars, blockVars, seekVars, loopVars>>

\* PackageManager::get_all_by_type: the same walk, filtered by file_type and,
\* when a subtype is given, by file_subtype
GetAllByType(etype, esubtype) ==
    /\ ~qc.done
    /\ \E p \in DOMAIN qc.index :
       \E i \in 0..(qc.index[p] - 1) :
           /\ table_entry(i).file_type = etype
           /\ \A t \in esubtype : t = table_entry(i).file_subtype
           /\ ReturnPair(IF esubtype = {} THEN "type" ELSE "subtype", p, i)
    /\ UNCHANGED <<readerVars, cryptoVars, fleetVars, raceVars, tagVars, getVars,
                   sweepVars, rawVars, nonceVars, blockVars, seekVars, loopVars>>

QueryNext ==
    \/ \E reference \in {0, 1} : GetAllByReference(reference)
    \/ \E etype \in {8, 9}, esubtype \in {{}, {0}, {1}} : GetAllByType(etype, esubtype)

SpecQuery == QueryInit /\ [][QueryNext]_vars

(***************************************************************************)
(* Package::read_entry (package.rs:202-244) one loop iteration at a time.  *)
(* The archive holds stored blocks of length 0, 16 and 32 and blocks whose *)
(* bytes the file does not hold.                                           *)
(***************************************************************************)
LoopHeaders == StoredHeaders \cup {[PlainHeader(16, 1) EXCEPT !.eof = TRUE]}

LoopInit ==
    /\ blocks \in SeqsUpTo(LoopHeaders, MaxBlocks)
    /\ version = "Destiny2BeyondLight"
    /\ sibling_files = {}
    /\ ReaderStart

\* a loop that leaves current_block where it is
next_block_same(current_block) == current_block

\* package.rs:240, current_block += 1
next_block(current_block) == current_block + 1

\* lines 203-210: the entry is looked up and the locals are set
StartRead(index) ==
    /\ lp.pc = "idle"
    /\ lp' = IF ~EntryInRange(index)
             THEN [NoLoop EXCEPT !.pc = "err", !.index = index,
                                 !.kind = "TableOutOfBounds"]
             ELSE [NoLoop EXCEPT !.pc = "running", !.index = index,
                                 !.current_block = entry(index).starting_block]
    /\ UNCHANGED <<readerVars, cryptoVars, fleetVars, raceVars, tagVars, getVars,
                   sweepVars, rawVars, nonceVars, blockVars, seekVars,
                   queryVars>>

\* lines 212-241: the loop's test and, when it holds, one run of its body
Iterate ==
    /\ lp.pc = "running"
    /\ LET e == entry(lp.index)
           remaining_bytes == e.file_size - lp.current_offset
       IN  IF ~(lp.current_offset < e.file_size)
           THEN /\ lp' = [lp EXCEPT !.pc = "ok"]
                /\ UNCHANGED <<block_cache, block_counter, file_handles>>
           ELSE \E g \in {get_block(lp.current_block, block_cache, block_counter,
                                    file_handles)} :
                /\ block_cache' = g.cache
                /\ block_counter' = g.counter
                /\ file_handles' = g.handles
                /\ lp' =
                     IF g.res # "ok"
                     THEN [lp EXCEPT !.pc = g.res, !.kind = g.kind]
                     ELSE IF lp.current_block = e.starting_block
                     THEN IF FirstCopyStart(e) > g.data.len
                          THEN [lp EXCEPT !.pc = "panic", !.kind = "SliceOutOfRange"]
                          ELSE LET block_remaining == g.data.len - FirstCopyStart(e)
                                   copy_size == IF block_remaining < remaining_bytes
                                                THEN block_remaining
                                                ELSE remaining_bytes
                               IN  [lp EXCEPT
                                      !.current_offset = @ + copy_size,
                                      !.len = @ + copy_size,
                                      !.current_block = next_block(@),
                                      !.steps = @ + 1]
                     ELSE LET n == LaterCopy(remaining_bytes, g.data.len)
                          IN  [lp EXCEPT
                                 !.current_offset = @ + n,
                                 !.len = @ + n,
                                 !.current_block = next_block(@),
                                 !.steps = @ + 1]
    /\ UNCHANGED <<blocks, version, cipher_extra, sibling_files, OODLE_3, OODLE_9,
                   patch_id, call>>
    /\ UNCHANGED <<cryptoVars, fleetVars, raceVars, tagVars, getVars, sweepVars, rawVars,
                   nonceVars, blockVars, seekVars, queryVars>>

LoopNext ==
    \/ \E index \in 0..EntryCount : StartRead(index)
    \/ Iterate

\* The caller's thread keeps running the loop it is in.
SpecLoop == LoopInit /\ [][LoopNext]_vars /\ WF_vars(Iterate)

(***************************************************************************)
(* One caller sweeping one cache: get after get, each run to its end       *)
(* (lookup, load and insert of a missing block, trimming) before the next  *)
(* starts.  Every load succeeds.  The cache is the one of a reader         *)
(* (d2_shared.rs:219-252) or a BlockCache (block_cache.rs:34-72).          *)
(***************************************************************************)
SweepInit ==
    /\ ReaderIdle
    /\ CryptoIdle
    /\ FleetIdle
    /\ RaceIdle
    /\ TagIdle
    /\ GetIdle
    /\ RawIdle
    /\ NonceIdle
    /\ BlockIdle
    /\ SeekIdle
    /\ LoopIdle
    /\ QueryIdle
    /\ sw \in {[NoSweep EXCEPT !.holder = h, !.cap = capacity(h)] : h \in Holders}

\* get(bi) by the only caller, from the lookup to the return
SweepGet(bi) ==
    /\ sw.holder \in Holders
    /\ sw.counter < MaxSweep
    /\ sw' = IF bi \in DOMAIN sw.cache
             THEN [sw EXCEPT !.cache = trim(sw.cache, sw.cap),
                             !.gets = Min(sw.gets + 1, MaxSweep),
                             !.pure = FALSE]
             ELSE [sw EXCEPT !.cache =
                                 trim((bi :> [epoch |-> sw.counter, data |-> NoData])
                                          @@ sw.cache,
                                      sw.cap),
                             !.counter = sw.counter + 1,
                             !.gets = Min(sw.gets + 1, MaxSweep),
                             !.pure = sw.pure /\ bi = sw.counter]
    /\ UNCHANGED <<readerVars, cryptoVars, fleetVars, raceVars, tagVars, getVars, rawVars, nonceVars,
                   blockVars, seekVars, loopVars, queryVars>>

\* the caller asks for the next block no get has asked for yet (a sweep in
\* rising order) or again for the block the latest load inserted
SweepNext ==
    \E bi \in {sw.counter - 1, sw.counter} \cap Nat : SweepGet(bi)

SpecSweep == SweepInit /\ [][SweepNext]_vars

(***************************************************************************)
(* The same single caller on a cache of a small capacity, asking for any   *)
(* block in any order, with the history of every cached block kept: which  *)
(* get loaded it and which get asked for it last.                          *)
(***************************************************************************)
MaxGets == 6

LruInit ==
    /\ ReaderIdle
    /\ CryptoIdle
    /\ FleetIdle
    /\ RaceIdle
    /\ TagIdle
    /\ GetIdle
    /\ RawIdle
    /\ NonceIdle
    /\ BlockIdle
    /\ SeekIdle
    /\ LoopIdle
    /\ QueryIdle
    /\ sw \in {[NoSweep EXCEPT !.holder = h, !.cap = BLOCK_CACHE_SIZE] : h \in Holders}

\* get(bi) by the only caller, from the lookup to the return.  The Occupied
\* arm clones the entry and leaves its epoch alone (block_cache.rs:40,
\* d2_shared.rs:222); the Vacant arm inserts with the current epoch.
LruGet(bi) ==
    /\ sw.holder \in Holders
    /\ sw.gets < MaxGets
    /\ \E c1 \in {IF bi \in DOMAIN sw.cache
                   THEN sw.cache
                   ELSE (bi :> [epoch |-> sw.counter, data |-> NoData]) @@ sw.cache} :
       \E c2 \in {trim(c1, sw.cap)} :
       \E used1 \in {(bi :> sw.gets) @@ sw.used} :
       \E loaded1 \in {IF bi \in DOMAIN sw.cache
                        THEN sw.loaded_at
                        ELSE (bi :> sw.gets) @@ sw.loaded_at} :
           sw' = [sw EXCEPT !.cache = c2,
                            !.counter = IF bi \in DOMAIN sw.cache
                                        THEN sw.counter ELSE sw.counter + 1,
                            !.gets = sw.gets + 1,
                            !.pure = sw.pure /\ bi = sw.counter,
                            !.used = Restrict(used1, DOMAIN c2),
                            !.loaded_at = Restrict(loaded1, DOMAIN c2),
                            !.removed = DOMAIN c1 \ DOMAIN c2,
                            !.lru = ArgMin(used1),
                            !.first = ArgMin(loaded1)]
    /\ UNCHANGED <<readerVars, cryptoVars, fleetVars, raceVars, tagVars, getVars, rawVars, nonceVars,
                   blockVars, seekVars, loopVars, queryVars>>

LruNext == \E bi \in 0..MaxBlocks : LruGet(bi)

SpecLru == LruInit /\ [][LruNext]_vars

(***************************************************************************)
(* get_block calls, one after the other, on a reader whose blocks may fail *)
(* to load: a block hosted by a sibling file that is missing, a block      *)
(* whose tag verifies under no key, a block that ends before its size.     *)
(* The sibling file may be put in place between two calls.                 *)
(***************************************************************************)
FailingHeaders ==
    {PlainHeader(16, 1), PlainHeader(16, 0),
     [PlainHeader(16, 1) EXCEPT !.flags = 2, !.enc = Unsealed],
     [PlainHeader(16, 1) EXCEPT !.eof = TRUE]}

BlockInit ==
    /\ blocks \in [1..MaxBlocks -> FailingHeaders]
    /\ version = "Destiny2BeyondLight"
    /\ sibling_files = {}
    /\ cipher_extra = None
    /\ OODLE_3 = FALSE
    /\ OODLE_9 = FALSE
    /\ block_cache = EmptyCache
    /\ block_counter = 0
    /\ file_handles = {}
    /\ patch_id = 1
    /\ call = NoCall
    /\ CryptoIdle
    /\ FleetIdle
    /\ RaceIdle
    /\ TagIdle
    /\ GetIdle
    /\ SweepIdle
    /\ RawIdle
    /\ NonceIdle
    /\ gb = NoBlockCall
    /\ SeekIdle
    /\ LoopIdle
    /\ QueryIdle

\* get_block(bi) by the only caller, run to its end (d2_shared.rs:219-252)
GetBlock(bi) ==
    /\ gb.gets < MaxGets
    /\ \E r \in {get_block(bi, block_cache, block_counter, file_handles)} :
         /\ block_cache' = r.cache
         /\ block_counter' = r.counter
         /\ file_handles' = r.handles
         /\ gb' = [gets |-> gb.gets + 1, bi |-> bi, res |-> r.res,
                   invoked |-> bi \notin DOMAIN block_cache,
                   cache_before |-> block_cache, counter_before |-> block_counter,
                   prev_bi |-> gb.bi, prev_res |-> gb.res]
    /\ UNCHANGED <<blocks, version, cipher_extra, sibling_files, OODLE_3, OODLE_9,
                   patch_id, call>>
    /\ UNCHANGED <<cryptoVars, fleetVars, raceVars, tagVars, getVars, sweepVars,
                   rawVars, nonceVars, seekVars, loopVars, queryVars>>

\* <path_base>_0.pkg is put in place
SiblingCreated ==
    /\ 0 \notin sibling_files
    /\ sibling_files' = sibling_files \cup {0}
    /\ UNCHANGED <<blocks, version, cipher_extra, OODLE_3, OODLE_9, block_cache,
                   block_counter, file_handles, patch_id, call>>
    /\ UNCHANGED <<cryptoVars, fleetVars, raceVars, tagVars, getVars, sweepVars,
                   rawVars, nonceVars, blockVars, seekVars, loopVars,
                   queryVars>>

BlockNext ==
    \/ \E bi \in 0..(MaxBlocks - 1) : GetBlock(bi)
    \/ SiblingCreated

SpecBlock == BlockInit /\ [][BlockNext]_vars

(***************************************************************************)
(* The nonce of an archive's crypto state (crypto.rs:48-73), for every     *)
(* pkg_id and every Destiny 2 generation an archive can be opened as.      *)
(***************************************************************************)
D2Versions ==
    {"Destiny2Beta", "Destiny2Forsaken", "Destiny2Shadowkeep", "Destiny2BeyondLight",
     "Destiny2WitchQueen", "Destiny2Lightfall", "Destiny2TheFinalShape"}

NonceInit ==
    /\ ReaderIdle
    /\ CryptoIdle
    /\ FleetIdle
    /\ RaceIdle
    /\ TagIdle
    /\ GetIdle
    /\ SweepIdle
    /\ RawIdle
    /\ BlockIdle
    /\ SeekIdle
    /\ LoopIdle
    /\ QueryIdle
    /\ \E id \in 0..(U16_MODULUS - 1), v \in D2Versions :
           nonce_call = [NoNonceCall EXCEPT !.pkg_id = id, !.version = v]

\* the archive is opened as nonce_call.version: its reader builds the common
\* part, which builds the crypto state
NewGcmState ==
    /\ ~nonce_call.done
    /\ nonce_call' = [nonce_call EXCEPT
                         !.done = TRUE,
                         !.nonce = PkgGcmState_new(nonce_call.pkg_id,
                                                   version_given(nonce_call.version))]
    /\ UNCHANGED <<readerVars, cryptoVars, fleetVars, raceVars, tagVars, getVars,
                   sweepVars, rawVars, blockVars, seekVars, loopVars,
                   queryVars>>

NonceNext == NewGcmState

SpecNonce == NonceInit /\ [][NonceNext]_vars

(***************************************************************************)
(* Raw block reads, one after the other, on the reader of one generation   *)
(* whose blocks lie in its own file (patch 1) and in the sibling files of  *)
(* patches 0 and 2.                                                        *)
(***************************************************************************)
MaxRawReads == 4

RawVersions == {"DestinyRiseOfIron", "DestinyTheTakenKing", "Destiny2Shadowkeep",
                "Destiny2BeyondLight"}

RawHeaders == {PlainHeader(16, p) : p \in {0, 1, 2}}

RawInit ==
    /\ blocks \in [1..MaxBlocks -> RawHeaders]
    /\ version \in RawVersions
    /\ sibling_files = {0, 2}
    /\ cipher_extra = None
    /\ OODLE_3 = FALSE
    /\ OODLE_9 = FALSE
    /\ block_cache = EmptyCache
    /\ block_counter = 0
    /\ file_handles = {}
    /\ patch_id = 1
    /\ call = NoCall
    /\ CryptoIdle
    /\ FleetIdle
    /\ RaceIdle
    /\ TagIdle
    /\ GetIdle
    /\ SweepIdle
    /\ rw = NoRaw
    /\ NonceIdle
    /\ BlockIdle
    /\ SeekIdle
    /\ LoopIdle
    /\ QueryIdle

\* get_block_raw(bi) of the reader's generation, run to its end
RawRead(bi) ==
    /\ rw.reads < MaxRawReads
    /\ \E r \in {get_block_raw_of(version, bi, file_handles)} :
         /\ file_handles' = r.handles
         /\ rw' = [reads |-> rw.reads + 1,
                   opens |-> IF r.opened
                             THEN (blocks[bi + 1].patch_id :>
                                      (IF blocks[bi + 1].patch_id \in DOMAIN rw.opens
                                       THEN rw.opens[blocks[bi + 1].patch_id] + 1
                                       ELSE 1)) @@ rw.opens
                             ELSE rw.opens,
                   bi |-> bi, res |-> r.res,
                   primary |-> blocks[bi + 1].patch_id = patch_id]
    /\ UNCHANGED <<blocks, version, cipher_extra, sibling_files, OODLE_3, OODLE_9,
                   block_cache, block_counter, patch_id, call>>
    /\ UNCHANGED <<cryptoVars, fleetVars, raceVars, tagVars, getVars, sweepVars, nonceVars,
                   blockVars, seekVars, loopVars, queryVars>>

RawNext == \E bi \in 0..(MaxBlocks - 1) : RawRead(bi)

SpecRaw == RawInit /\ [][RawNext]_vars

(***************************************************************************)
(* Entry reconstruction: what read_entry is claimed to return.             *)
(***************************************************************************)

\* The decoded data of block b of the table, as the loader yields it.
Decoded(b) == read_block(b, file_handles).data

\* The bytes [lo, hi) of the concatenation of the decoded blocks b, b + 1, ...,
\* where block b begins at byte g of the concatenation: the part of every block
\* that lies inside the range, in order.
RECURSIVE SliceOfBlocks(_, _, _, _)
SliceOfBlocks(b, g, lo, hi) ==
    IF b >= Len(blocks) \/ g >= hi
    THEN << >>
    ELSE Extent(b, Max(lo, g) - g, Min(hi, g + Decoded(b).len) - g, Decoded(b).content)
         \o SliceOfBlocks(b + 1, g + Decoded(b).len, lo, hi)

ExpectedBytes(e) ==
    SliceOfBlocks(e.starting_block, 0, e.starting_block_offset,
                  e.starting_block_offset + e.file_size)

Called == call.index # -1
Returned == Called /\ call.res = "ok"

Range(q) == {q[i] : i \in 1..Len(q)}
Count(q, x) == Cardinality({i \in 1..Len(q) : q[i] = x})

\* C1: whenever read_entry(i) returns successfully, the returned buffer is
\* exactly entries[i].file_size bytes long, however many blocks the entry
\* spans and whatever their decoded lengths.
C1_BufferLengthIsFileSize ==
    Returned => BufLen(call.buffer) = entry(call.index).file_size

\* C1 witness: a successful read that spanned three blocks of which not all
\* have the same decoded length.
C1_Witness ==
    /\ Returned
    /\ Len(call.touched) = 3
    /\ \E b, c \in Range(call.touched) : Decoded(b).len # Decoded(c).len

\* C2: a successful read_entry(i) returns exactly the bytes
\* [starting_block_offset, starting_block_offset + file_size) of the
\* concatenation of the decoded blocks from starting_block on: the first block
\* copied from starting_block_offset, later ones from 0, the last one up to the
\* remaining count; one block suffices when it holds the range; a zero-length
\* entry returns an empty buffer without asking for any block.
C2_BufferIsSliceOfBlocks ==
    Returned =>
        LET e == entry(call.index)
        IN  /\ call.buffer = ExpectedBytes(e)
            /\ \A i \in 1..Len(call.touched) :
                   call.touched[i] = e.starting_block + i - 1
            /\ \A i \in 1..Len(call.buffer) :
                   /\ call.buffer[i].blk = e.starting_block
                          => call.buffer[i].from = e.starting_block_offset
                   /\ call.buffer[i].blk # e.starting_block
                          => call.buffer[i].from = 0
            /\ Len(call.touched) = 1 =>
                   BufLen(call.buffer) =
                       Min(Decoded(e.starting_block).len - e.starting_block_offset,
                           e.file_size)
            /\ e.file_size = 0 => call.buffer = << >> /\ call.touched = << >>

\* C2 witness: a successful read that began inside its first block, took a
\* whole middle block and stopped inside its last block.
C2_Witness ==
    /\ Returned
    /\ Len(call.buffer) = 3
    /\ call.buffer[1].from > 0
    /\ call.buffer[3].to < Decoded(call.buffer[3].blk).len

\* C2 witness for the empty entry: a zero-length entry was read.
C2_WitnessEmpty ==
    Returned /\ entry(call.index).file_size = 0

RepeatedRead == Called /\ call.repeat /\ call.res = "ok" /\ call.first_res = "ok"

LoadedAtMostOnce ==
    \A b \in Range(call.touched) : Count(call.first_loads, b) + Count(call.loads, b) <= 1

\* C3 as claimed: reading the same entry twice returns identical buffers and
\* runs the loader at most once per block of the entry over both calls, for
\* every entry, also one that spans more blocks than the cache holds.
C3_AsClaimed ==
    RepeatedRead => call.buffer = call.first_buffer /\ LoadedAtMostOnce

\* C3 amended: reading the same entry twice in a row returns identical buffers
\* and runs the loader at most once per block of the entry over both calls,
\* for every entry that spans at most BLOCK_CACHE_SIZE blocks.
C3_RepeatedReadWithinCapacity ==
    RepeatedRead /\ Cardinality(Range(call.touched)) <= BLOCK_CACHE_SIZE
        => call.buffer = call.first_buffer /\ LoadedAtMostOnce

\* C3 witness: the first read of a two-block entry loaded a block while another
\* block was cached, and the repeated read was served from the cache alone.
C3_Witness ==
    /\ RepeatedRead
    /\ Cardinality(Range(call.touched)) = 2
    /\ call.first_loads # << >>
    /\ call.loads = << >>
    /\ block_counter > Len(call.first_loads)

Constructed == new_call.done /\ new_call.res = "ok"

FilesOf(id) == {f \in dir_files : f.id = id}

\* the file of the directory with the largest patch number among those of id
LatestPatch(id) ==
    CHOOSE f \in FilesOf(id) : \A g \in FilesOf(id) : g.patch <= f.patch

\* C4 as claimed: after discovery over the .pkg files of the directory,
\* package_paths holds exactly one path per pkg_id found there, and it is the
\* file with the largest patch number among the files of that pkg_id, also
\* when the patch numbers differ in their digit count (2 and 10).
C4_LatestPatchPerPkgId ==
    Constructed /\ new_call.walked =>
        /\ DOMAIN package_paths = {f.id : f \in dir_files}
        /\ \A id \in DOMAIN package_paths : package_paths[id] = LatestPatch(id)

\* the entry of the cache file found by the latest construction that get_paths
\* selects for the version and platform asked for
SelectedEntry ==
    get_paths(new_call.cache_before, GameVer, new_call.platform, PackagesDir)

C6_RacersKeepFirstReader ==
    /\ \A t, u \in Threads :
           (/\ t # u
            /\ th[t].pc = "done" /\ th[u].pc = "done"
            /\ th[t].pkg_id = th[u].pkg_id
            /\ th[t].pkg_id \in DOMAIN package_paths)
           => th[t].res = "ok" /\ th[u].res = "ok" /\ pkgs[th[t].pkg_id] # 0
    /\ \A i, j \in 1..Len(inserted) :
           i < j => inserted[i][1] # inserted[j][1]

Decrypted == gcm_call.flags # -1

\* C7: decrypt_block_in_place chooses the key from the flags alone. With
\* flags & 0x8 it tries only the external key of the archive's group: it
\* succeeds exactly when that key is registered and verifies the block, and
\* otherwise fails with RedactedUnavailable without trying K0 or K1. Without
\* 0x8, flags & 0x4 selects K1 and otherwise K0, each with the derived nonce,
\* and the call succeeds exactly when that pair verifies the block.
C7_KeyChosenByFlags ==
    Decrypted =>
        LET c == gcm_call
        IN  IF Bit(c.flags, 8)
            THEN /\ c.ok <=> (cipher_extra # None /\ c.enc = Sealed(cipher_extra, "iv"))
                 /\ c.ok => c.cipher = cipher_extra /\ c.nonce = "iv"
                 /\ ~c.ok => c.kind = "RedactedUnavailable"
                 /\ c.cipher \notin {"K0", "K1"}
            ELSE /\ c.cipher = IF Bit(c.flags, 4) THEN "K1" ELSE "K0"
                 /\ c.nonce = "derived"
                 /\ c.ok <=> c.enc = Sealed(c.cipher, "derived")
                 /\ ~c.ok => c.kind = "DecryptFailed"

\* C7 witness: flags = 0xB, no key registered for the group, and a block that
\* K0 would open: the call failed with RedactedUnavailable.
C7_Witness ==
    /\ Decrypted
    /\ gcm_call.flags = 11
    /\ cipher_extra = None
    /\ gcm_call.enc = Sealed("K0", "derived")
    /\ ~gcm_call.ok
    /\ gcm_call.kind = "RedactedUnavailable"

\* C8 as claimed: read_entry with an entry index outside the entry table, or
\* with an entry whose walk reaches a block index >= |blocks|, returns a
\* TableOutOfBounds error; it neither panics nor returns data.
C8_OutOfBoundsIsAnError ==
    Called /\ (~EntryInRange(call.index) \/ call.walked_out)
        => call.res = "err" /\ call.kind = "TableOutOfBounds"

\* C9 as claimed: with the required adapter not loaded, a read that needs no
\* compressed block succeeds, and a read that reaches a compressed block
\* returns a CodecUnavailable error.
C9_MissingAdapterIsAnError ==
    Called /\ call.codec_missing
        => call.res = "err" /\ call.kind = "CodecUnavailable"

\* C10 as claimed: when the adapter answers zero or a negative length for a
\* compressed block, the read fails with CodecFailed and that block is not
\* stored in the block cache.
C10_CodecFailureIsAnError ==
    Called /\ call.lz_failed
        => /\ call.res = "err"
           /\ call.kind = "CodecFailed"
           /\ \A b \in DOMAIN block_cache :
                  ~(Bit(blocks[b + 1].flags, 1) /\ blocks[b + 1].lz <= 0)

\* C11: a tag made by TagHash::new from any u16 package id and any entry
\* index below 8192 reads back that package id and that entry index.
C11_TagRoundTrip ==
    (tag_call.done /\ tag_call.entry < 8192)
        => /\ tag_call.read_pkg_id = tag_call.pkg_id
           /\ tag_call.read_entry_index = tag_call.entry

\* the largest package id and the largest entry index have been packed
C11_Witness ==
    /\ tag_call.done
    /\ tag_call.pkg_id = 65535
    /\ tag_call.entry = 8191
    /\ tag_call.read_pkg_id = 65535
    /\ tag_call.read_entry_index = 8191

\* C12: after the constructor has listed the directory, every archive in
\* package_paths has a header language of English or none, whatever its name.
C12_OnlyEnglishOrNoneSelected ==
    (new_call.done /\ new_call.res = "ok" /\ new_call.walked)
        => \A id \in DOMAIN package_paths :
               english_or_none(open(package_paths[id]).language)

\* C13: after the lookup index is built, every alias of tag64_entries
\* resolves to a valid Tag32.
C13_NoInvalidAliasInIndex ==
    (new_call.done /\ new_call.res = "ok" /\ new_call.built)
        => \A h \in DOMAIN lookup.tag64_entries :
               TagHash_is_valid(lookup.tag64_entries[h].hash32)

\* the selected archives that Version::open opens
Survivors == Opened(package_paths)

\* C14: construction fails exactly when no archive survives the opening of
\* index building.
C14_FailsIffNoArchiveSurvives ==
    new_call.done => (new_call.res = "err" <=> Survivors = {})

\* C16: the index is taken from the lookup cache file only when the file was
\* written in the current version.
C16_IndexFromFileOnlyOfThisVersion ==
    (new_call.done /\ new_call.res = "ok" /\ new_call.from_file)
        => new_call.lookup_before.this_build

\* the key the manager writes its paths under, and the entry the latest
\* construction found under it
OwnKey == <<GameVer, FilePlatform>>

\* the latest construction found a cache file of the current version whose
\* selected entry is for this directory and older than the directory
FoundStale ==
    /\ new_call.done
    /\ new_call.cache_before.readable
    /\ new_call.cache_before.cache_version = VERSION
    /\ SelectedEntry.res = "ok"
    /\ SelectedEntry.some
    /\ SelectedEntry.entry.base_path = PackagesDir
    /\ SelectedEntry.entry.timestamp < new_call.mtime

LongEntryRead ==
    /\ Returned
    /\ entry(call.index) = LongEntries[1]
    /\ Len(blocks) >= 3
    /\ \A b \in 0..2 : Decoded(b).len = BLOCK_SIZE

\* C17 as claimed: the read touches exactly blocks 0, 1 and 2, and the last
\* 0x3ffc0 bytes of the result come from block 2.
C17_AsClaimed ==
    LongEntryRead =>
        /\ call.touched = <<0, 1, 2>>
        /\ call.buffer[Len(call.buffer)].blk = 2
        /\ call.buffer[Len(call.buffer)].to - call.buffer[Len(call.buffer)].from >= 262080

\* C17: the read touches exactly blocks 0, 1 and 2; the first 0x3ffc0 bytes
\* of the result are bytes 0x40 to 0x40000 of block 0, the next 0x40000 are
\* block 1, and the last 0x40 bytes are the first 0x40 bytes of block 2.
C17_LongEntrySpansThreeBlocks ==
    LongEntryRead =>
        /\ call.touched = <<0, 1, 2>>
        /\ BufLen(call.buffer) = 2 * BLOCK_SIZE
        /\ Len(call.buffer) = 3
        /\ call.buffer[1].blk = 0 /\ call.buffer[1].from = 64
        /\ call.buffer[1].to = BLOCK_SIZE
        /\ call.buffer[2].blk = 1 /\ call.buffer[2].from = 0
        /\ call.buffer[2].to = BLOCK_SIZE
        /\ call.buffer[3].blk = 2 /\ call.buffer[3].from = 0
        /\ call.buffer[3].to = 64

\* C17 witness: the entry was read over a stored block, a compressed block
\* and a stored block, each of decoded size 0x40000.
C17_Witness ==
    /\ LongEntryRead
    /\ blocks[1].flags = 0
    /\ blocks[2].flags = 1
    /\ Len(call.buffer) = 3

\* C18: at most one thread runs the loader for a block index at a time, and a
\* thread that called get_block for a block while another thread was loading
\* it takes the buffer that thread cached and does not run the loader.
C18_ConcurrentMissesSerialize ==
    /\ \A t, u \in Getters :
           (t # u /\ gt[t].pc = "loading" /\ gt[u].pc = "loading")
               => gt[t].bi # gt[u].bi
    /\ \A t \in Getters :
           (gt[t].behind # 0 /\ gt[t].pc \in {"check", "pick", "remove"})
               => ~gt[t].loaded /\ gt[t].got = gt[t].expect

\* C20: every removal of the trimming loop removes the entry that has the
\* smallest epoch at that moment, and happens while the cache holds more than
\* BLOCK_CACHE_SIZE blocks.
C20_TrimRemovesOldestWhileOver ==
    last_removal.done =>
        /\ last_removal.present
        /\ last_removal.smallest
        /\ last_removal.len_before > BLOCK_CACHE_SIZE

\* C19: every block cache is bounded at 32 blocks: after every completed get
\* it holds at most 32 entries, and after more than 32 requests for distinct
\* blocks in rising order it holds exactly 32.
C19_CacheHoldsAtMost32 ==
    sw.holder \in Holders =>
        /\ Cardinality(DOMAIN sw.cache) <= 32
        /\ (sw.pure /\ sw.counter > 32) => Cardinality(DOMAIN sw.cache) = 32

\* C21 as claimed: a hit counts as a use, so the block a get evicts is the one
\* whose latest get, hit or miss, is the oldest.
C21_AsClaimed ==
    sw.removed # {} => sw.removed = {sw.lru}

\* C21: the block a get evicts is the one loaded earliest among the cached
\* ones; a hit does not count as a use.
C21_EvictsEarliestLoaded ==
    sw.removed # {} => sw.removed = {sw.first}

\* C21 witness: a get evicted a block that was not the least recently used.
C21_Witness ==
    /\ sw.removed # {}
    /\ sw.lru # sw.first
    /\ sw.removed = {sw.first}

\* C22: in every generation's reader a block of the reader's own patch is
\* read without opening a file, and each sibling file is opened at most once
\* over any sequence of block reads, its handle kept in the patch-file map.
C22_SiblingOpenedAtMostOnce ==
    /\ \A p \in DOMAIN rw.opens :
           /\ p # patch_id
           /\ rw.opens[p] <= 1
           /\ p \in file_handles
    /\ (rw.bi # -1 /\ rw.res = "ok" /\ ~rw.primary) =>
           blocks[rw.bi + 1].patch_id \in file_handles

\* C23: for every pkg_id the nonce of an archive is the base with byte 0
\* XORed with pkg_id >> 8 and byte 11 XORed with pkg_id & 0xff, bytes 2 to 10
\* unchanged, and byte 1 set to 0xf9 for Beta, Forsaken and Shadowkeep archives
\* and to 0xea for Beyond Light and later ones.
C23_NonceOfArchive ==
    nonce_call.done =>
        /\ Len(nonce_call.nonce) = 12
        /\ \A i \in 1..12 : nonce_call.nonce[i] \in 0..255
        /\ \A mask \in {1, 2, 4, 8, 16, 32, 64, 128} :
               /\ Bit(nonce_call.nonce[1], mask) =
                      (Bit(AES_NONCE_BASE[1], mask) # Bit(nonce_call.pkg_id \div 256, mask))
               /\ Bit(nonce_call.nonce[12], mask) =
                      (Bit(AES_NONCE_BASE[12], mask) # Bit(nonce_call.pkg_id % 256, mask))
        /\ \A i \in 3..11 : nonce_call.nonce[i] = AES_NONCE_BASE[i]
        /\ nonce_call.nonce[2] =
               IF nonce_call.version \in
                      {"Destiny2Beta", "Destiny2Forsaken", "Destiny2Shadowkeep"}
               THEN 249 ELSE 234

\* C23 witness: the nonce of a Forsaken archive whose pkg_id changes both
\* byte 0 and byte 11.
C23_Witness ==
    /\ nonce_call.done
    /\ nonce_call.version = "Destiny2Forsaken"
    /\ nonce_call.pkg_id = 2 * 256 + 91
    /\ nonce_call.nonce[1] = 134
    /\ nonce_call.nonce[2] = 249
    /\ nonce_call.nonce[12] = 194

\* C24: when the loader fails inside get_block, get_block returns the error,
\* the cache and the epoch counter are as before the call (nothing inserted
\* for the index, nothing evicted), and a later get_block for the same index
\* runs the loader again.
C24_FailedLoadLeavesCacheAlone ==
    /\ (gb.bi # -1 /\ gb.invoked /\ read_block(gb.bi, file_handles).res = "err") =>
           gb.res = "err"
    /\ gb.res = "err" =>
           /\ block_cache = gb.cache_before
           /\ block_counter = gb.counter_before
           /\ gb.bi \notin DOMAIN block_cache
    /\ (gb.bi # -1 /\ gb.prev_bi = gb.bi /\ gb.prev_res = "err") => gb.invoked

\* C24 witness: a load failed with two blocks cached, and the get_block for
\* the same index right after it ran the loader again and succeeded.
C24_Witness ==
    /\ gb.prev_bi = gb.bi
    /\ gb.prev_res = "err"
    /\ gb.invoked
    /\ gb.res = "ok"
    /\ Cardinality(DOMAIN gb.cache_before) = BLOCK_CACHE_SIZE

\* C25: on one reader the seek to a block's offset and the read that follows
\* it on the primary handle are not interleaved with another thread's seek:
\* between the two the handle stays at the block's offset, and every raw block
\* read returns the bytes at its own block's offset.
C25_SeekAndReadNotInterleaved ==
    \A t \in Getters :
        /\ gt[t].pc = "sought" => reader_pos = BlockOffset(gt[t].bi)
        /\ gt[t].from # -1 => gt[t].from = BlockOffset(gt[t].bi)
        /\ gt[t].pc \in {"sought", "read"} =>
               \A u \in Getters \ {t} : gt[u].pc \notin {"loading", "sought", "read"}

\* C25 witness: a thread has read its block from the handle while another
\* thread, which wants a different block that is not cached, waits for the
\* cache's lock, after an earlier read left the handle elsewhere.
C25_Witness ==
    \E t, u \in Getters :
        /\ gt[t].pc = "read"
        /\ gt[t].from = BlockOffset(gt[t].bi)
        /\ gt[u].pc = "called"
        /\ gt[u].bi # gt[t].bi
        /\ gt[u].bi \notin DOMAIN block_cache
        /\ block_counter > 0

\* C26 as claimed: a read_entry call on an entry of the table, none of whose
\* block loads failed, ends by returning file_size bytes or with a block index
\* out of range.
C26_AsClaimed ==
    (lp.pc \in {"ok", "err", "panic"} /\ EntryInRange(lp.index) /\ lp.kind # "Io") =>
        \/ lp.pc = "ok" /\ lp.len = entry(lp.index).file_size
        \/ lp.kind = "IndexOutOfBounds"

\* C26: read_entry always terminates: every completed iteration advances
\* current_block by one and current_block never passes the end of the block
\* table, so a running call ends; it returns file_size bytes, or fails with a
\* block index out of range, with a starting_block_offset beyond the starting
\* block's decoded length, or with a failure of the block's load.
C26_ReadEntryTerminates ==
    /\ []((lp.pc # "idle" /\ EntryInRange(lp.index)) =>
            /\ lp.current_block = entry(lp.index).starting_block + lp.steps
            /\ lp.current_block <= Max(Len(blocks), entry(lp.index).starting_block)
            /\ lp.pc = "ok" => lp.len = entry(lp.index).file_size
            /\ lp.pc \in {"err", "panic"} =>
                   lp.kind \in {"IndexOutOfBounds", "SliceOutOfRange", "Io"})
    /\ (lp.pc = "running") ~> (lp.pc \in {"ok", "err", "panic"})

\* C26 witness: a call that asked for bytes walked over blocks of decoded
\* length zero, copied nothing, and ended past the last block.
C26_Witness ==
    /\ lp.pc = "panic"
    /\ lp.kind = "IndexOutOfBounds"
    /\ lp.steps >= 2
    /\ lp.len = 0
    /\ entry(lp.index).file_size > 0

\* C27 as claimed: for every pair (tag, entry) a query returns, at whatever
\* position of the entry table, tag.pkg_id() is the entry's archive and
\* get_entry(tag) is that entry.
C27_AsClaimed ==
    qc.done =>
        /\ qc.tag_pkg_id = qc.p
        /\ qc.got = <<qc.entry>>

\* C27: for every pair (tag, entry) returned by get_all_by_reference or
\* get_all_by_type for an entry at a position below 8192, tag.pkg_id() is the
\* entry's archive and get_entry(tag) returns that same entry.
C27_PairsBelow8192RoundTrip ==
    (qc.done /\ qc.i < 8192) =>
        /\ qc.tag_pkg_id = qc.p
        /\ qc.got = <<qc.entry>>

\* C27 witness: a query by type returned the entry at position 8191 of the
\* archive with the largest package id, from a table longer than 8192.
C27_Witness ==
    /\ qc.done
    /\ qc.by = "subtype"
    /\ qc.p = 65535
    /\ qc.i = 8191
    /\ qc.index[qc.p] > 8192
    /\ qc.got = <<table_entry(8191)>>

\* C28: after a construction that built its index, every key k of
\* package_paths maps to an archive whose header pkg_id is k, and for every
\* tag for which get_entry finds an entry, read_tag opens the archive the
\* entry was indexed from.
C28_MapsAgreeOnKeys ==
    (Constructed /\ new_call.built) =>
        /\ \A k \in DOMAIN package_paths :
               open(package_paths[k]).ok => open(package_paths[k]).pkg_id = k
        /\ \A id \in DOMAIN lookup.tag32_entries_by_pkg :
           \A i \in DOMAIN lookup.tag32_entries_by_pkg[id] :
               \E f \in Opened(package_paths) :
                   /\ open(f).pkg_id = id
                   /\ read_tag_opens(package_paths, TagHash_new(id, i - 1)) = <<f>>

\* C29: whenever a constructed manager took its lookup index from the lookup
\* cache file, that index is the one build_lookup_tables gives for the
\* manager's package_paths, also after a run whose write of the lookup cache
\* file failed.
C29_IndexFromFileMatchesPaths ==
    (Constructed /\ new_call.from_file) => lookup = build_lookup_tables(package_paths)

\* C30: under any interleaving of concurrent get calls on one reader, the
\* epochs stored in its block cache are pairwise distinct and lie below the
\* counter, a cached block keeps its epoch, and every block inserted gets an
\* epoch above those of all blocks then cached: the smallest epoch belongs to
\* the block inserted earliest among those still cached.
C30_EpochsIncreaseWithInsertion ==
    /\ [](\A a, b \in DOMAIN block_cache :
             /\ block_cache[a].epoch < block_counter
             /\ a # b => block_cache[a].epoch # block_cache[b].epoch)
    /\ [][\A k \in DOMAIN block_cache' :
             IF k \in DOMAIN block_cache
             THEN block_cache'[k].epoch = block_cache[k].epoch
             ELSE \A j \in DOMAIN block_cache :
                      block_cache[j].epoch < block_cache'[k].epoch]_vars

\* C30 witness: two threads have each inserted a block, both blocks are
\* cached, the later insert carries the higher epoch, and a third thread is
\* loading another block under the lock.
C30_Witness ==
    \E t, u, w \in Getters :
        /\ gt[t].loaded /\ gt[u].loaded
        /\ gt[t].bi \in DOMAIN block_cache /\ gt[u].bi \in DOMAIN block_cache
        /\ block_cache[gt[t].bi].epoch = 0
        /\ block_cache[gt[u].bi].epoch = 1
        /\ gt[w].pc = "loading"
        /\ write_lock = w
        /\ gt[w].bi \notin DOMAIN block_cache

====
